---- MODULE Spec2Model ----
(***************************************************************************)
(* Warehouse stock allocation (WMS_PROJECT): the Batch / Order /           *)
(* OrderItem / Allocation / TransactionLog tables, Batch.reserve, the      *)
(* allocate_order service and the request handlers that move stock.        *)
(*                                                                         *)
(* The tables hold COMMITTED rows only.  A running allocate_order call     *)
(* keeps the rows it has written inside its own transaction in proc[p]     *)
(* (made, oi_updates) and they reach the tables when the transaction       *)
(* commits; a rollback drops them.  Row locks taken by select_for_update   *)
(* and by UPDATE statements are in rowLock and are released at the end of  *)
(* the transaction.  Quantities are Decimal values modelled as integers.   *)
(***************************************************************************)
EXTENDS Integers, Sequences, FiniteSets, TLC

VARIABLES
    batches,        \* Batch table: id -> row
    orders,         \* Order table: id -> row
    orderItems,     \* OrderItem table: id -> row
    allocations,    \* Allocation table, rows in creation order
    txlog,          \* TransactionLog table, rows in creation order
    notifications,  \* Notification table, rows in creation order
    shipments,      \* Shipment table, rows in creation order
    returns,        \* Return table: id -> row
    undoStack,      \* UndoStack table, rows in id order
    redoStack,      \* RedoStack table, rows in id order
    rowLock,        \* row -> the process whose open transaction holds its lock
    proc,           \* per caller: position in allocate_order / Batch.reserve and its locals
    backend         \* the configured database backend (fixes where NULLs sort)

vars == <<batches, orders, orderItems, allocations, txlog, notifications,
          shipments, returns, undoStack, redoStack, rowLock, proc, backend>>

\* tables no step of allocate_order or Batch.reserve writes
others == <<shipments, returns, undoStack, redoStack>>

tables == <<batches, orders, orderItems, allocations, txlog, notifications, others>>

-----------------------------------------------------------------------------
(* Bounds of the model *)

NBatch == 3         \* batch ids 1..NBatch
MaxAvail == 2       \* largest received quantity of a batch
MaxReq == 3         \* largest qty_requested of an order line
NProcs == 2         \* concurrent callers
MaxDay == 4         \* latest expiry date; dates are day numbers

-----------------------------------------------------------------------------
(* Program constants *)

NoExpiry == 0       \* expiry_date IS NULL
Today == 2          \* timezone.now().date()
NoOwner == 0        \* row not locked
MissingOrder == 0   \* an order id with no row

STATUS_AVAILABLE == "available"
STATUS_RESERVED == "reserved"
STATUS_HOLD == "hold"
STATUS_EXPIRED == "expired"

STATUS_NEW == "new"
STATUS_ALLOCATED == "allocated"
STATUS_PICKED == "picked"
STATUS_SHIPPED == "shipped"
STATUS_DELIVERED == "delivered"
STATUS_CANCELLED == "cancelled"

TYPE_RECEIPT == "receipt"
TYPE_RESERVE == "reserve"
TYPE_DEALLOCATE == "deallocate"
TYPE_SHIP == "ship"
TYPE_ADJUST == "adjust"

LEVEL_INFO == "info"
LEVEL_WARNING == "warning"
LEVEL_ERROR == "error"

Backends == {"postgresql", "sqlite3"}

\* DATABASES["default"]["ENGINE"] when DATABASE_URL is not set
DefaultBackend == "sqlite3"

BatchIds == 1..NBatch
Procs == 1..NProcs

-----------------------------------------------------------------------------
(* Helpers over rows *)

Min(a, b) == IF a <= b THEN a ELSE b

RECURSIVE SumAllocated(_)
\* Sum("qty_allocated") over a sequence of Allocation rows
SumAllocated(s) == IF s = <<>> THEN 0 ELSE Head(s).qty_allocated + SumAllocated(Tail(s))

RECURSIVE SeqOfSet(_)
\* the elements of a set of ids in ascending id order
SeqOfSet(S) ==
    IF S = {} THEN <<>>
    ELSE LET m == CHOOSE x \in S : \A y \in S : x <= y
         IN  <<m>> \o SeqOfSet(S \ {m})

Range(s) == {s[i] : i \in 1..Len(s)}

\* rows of a table (a sequence) that satisfy a test, in table order
AllocsOfBatch(b) == SelectSeq(allocations, LAMBDA a : a.batch = b)
AllocsOfItem(oi) == SelectSeq(allocations, LAMBDA a : a.order_item = oi)
AllocsOfOrder(o) == SelectSeq(allocations, LAMBDA a : orderItems[a.order_item].order = o)

BatchRow(b) == <<"batch", b>>
OrderItemRow(i) == <<"order_item", i>>

-----------------------------------------------------------------------------
(* ManualQueue / ManualStack as used by allocate_order *)

enqueue(q, v) == Append(q, v)
dequeue(q) == [value |-> Head(q), queue |-> Tail(q)]
push(s, v) == Append(s, v)
pop(s) == [value |-> s[Len(s)], stack |-> SubSeq(s, 1, Len(s) - 1)]

RECURSIVE reversed(_)
reversed(s) == IF s = <<>> THEN <<>> ELSE Append(reversed(Tail(s)), Head(s))

RECURSIVE PushAll(_, _)
PushAll(st, s) == IF s = <<>> THEN st ELSE PushAll(push(st, Head(s)), Tail(s))

RECURSIVE EnqueueAll(_, _)
EnqueueAll(q, s) == IF s = <<>> THEN q ELSE EnqueueAll(enqueue(q, Head(s)), Tail(s))

-----------------------------------------------------------------------------
(* The FEFO candidate query of _allocate_item_with_stack *)

\* ORDER BY expiry_date places NULL first on sqlite3 and last on postgresql
NullsFirst == backend = "sqlite3"

\* ORDER BY expiry_date ASC, id ASC
OrderedBefore(a, b) ==
    LET ea == batches[a].expiry_date
        eb == batches[b].expiry_date
    IN  IF ea = eb THEN a < b
        ELSE IF ea = NoExpiry THEN NullsFirst
        ELSE IF eb = NoExpiry THEN ~NullsFirst
        ELSE ea < eb

RECURSIVE OrderBy(_)
OrderBy(S) ==
    IF S = {} THEN <<>>
    ELSE LET m == CHOOSE x \in S : \A y \in S \ {x} : OrderedBefore(x, y)
         IN  <<m>> \o OrderBy(S \ {m})

\* the filter() of the candidate query without its expiry clause
IsEligibleAnyExpiry(b, item) ==
    /\ batches[b].item = item
    /\ batches[b].status = STATUS_AVAILABLE
    /\ batches[b].available_qty > 0

\* the filter() of the candidate query
IsEligible(b, item) ==
    /\ batches[b].item = item
    /\ batches[b].status = STATUS_AVAILABLE
    /\ batches[b].available_qty > 0
    /\ (batches[b].expiry_date = NoExpiry \/ batches[b].expiry_date > Today)

Eligible(item) == OrderBy({b \in DOMAIN batches : IsEligible(b, item)})

-----------------------------------------------------------------------------
(* Per-caller state *)

IdleProc ==
    [pc |-> "idle", order |-> MissingOrder, n_items |-> 0, snapshot |-> <<>>,
     task_q |-> <<>>, cur |-> 0, eligible |-> <<>>, stack |-> <<>>, qty_needed |-> 0,
     qty_remaining |-> 0, made |-> <<>>, oi_updates |-> <<>>, results |-> <<>>,
     outcome |-> "none", qty |-> 0, batch |-> 0, locked |-> <<>>]

\* a counter that counts every line whatever its status
CountAll(results, status) == Len(results)

\* items_fully_allocated / items_failed: the lines that ended with the status
Count(results, status) == Len(SelectSeq(results, LAMBDA r : r.status = status))

\* quantity p's open transaction has already taken from batch b
PendingOn(p, b) == SumAllocated(SelectSeq(proc[p].made, LAMBDA a : a.batch = b))

\* quantity p's open transaction has added to OrderItem i by F-updates
PendingItem(p, i) == SumAllocated(SelectSeq(proc[p].oi_updates, LAMBDA a : a.order_item = i))

\* the rows whose lock p holds are released when p's transaction ends
Release(p) == [r \in DOMAIN rowLock |-> IF rowLock[r] = p THEN NoOwner ELSE rowLock[r]]

\* a lock request that never waits
CanLockNoWait(p, r) == TRUE

\* select_for_update() / UPDATE can take the row lock when no other open
\* transaction holds it
CanLock(p, r) == rowLock[r] \in {NoOwner, p}

\* CheckConstraint batch_available_nonneg: an UPDATE leaving a negative
\* available_qty is rejected with IntegrityError
ViolatesNonNeg(new_available) == new_available < 0

-----------------------------------------------------------------------------
(* allocate_order *)

\* qty_to_allocate = min(batch.available_qty, qty_remaining)
QtyToAllocate(available, remaining) == Min(available, remaining)

\* the exception leaves the atomic block: the transaction is rolled back
Raised(pr, exc) ==
    [pr EXCEPT !.pc = "done", !.outcome = exc, !.made = <<>>, !.oi_updates = <<>>,
               !.stack = <<>>, !.task_q = <<>>]

\* a status check that lets every order through
IsCancelledNever(o) == FALSE

\* line 52: order.status == Order.STATUS_CANCELLED
IsCancelled(o) == orders[o].status = STATUS_CANCELLED

\* lines 47-70: load the order and its lines, fill the task queue
AllocLoad(p, o) ==
    /\ proc[p].pc = "idle"
    /\ proc' = [proc EXCEPT ![p] =
          IF o \notin DOMAIN orders
          THEN Raised([IdleProc EXCEPT !.order = o], "OrderNotFoundError")
          ELSE IF IsCancelled(o)
          THEN Raised([IdleProc EXCEPT !.order = o], "AllocationError")
          ELSE LET ois == SeqOfSet({i \in DOMAIN orderItems : orderItems[i].order = o})
               IN  IF ois = <<>>
                   THEN Raised([IdleProc EXCEPT !.order = o], "AllocationError")
                   ELSE [IdleProc EXCEPT !.pc = "dequeue", !.order = o,
                            !.n_items = Len(ois),
                            !.snapshot = [i \in Range(ois) |-> orderItems[i]],
                            !.task_q = EnqueueAll(<<>>, ois)]]
    /\ UNCHANGED <<tables, rowLock, backend>>

\* a line that is always short of its whole requested quantity
QtyNeededAll(row) == row.qty_requested

\* line 125: qty_needed = order_item.qty_requested - order_item.qty_allocated
QtyNeeded(row) == row.qty_requested - row.qty_allocated

\* lines 73-75 and 124-155: take the next line, compute qty_needed from the
\* loaded OrderItem and query the candidate batches
AllocBeginLine(p) ==
    /\ proc[p].pc = "dequeue"
    /\ proc[p].task_q # <<>>
    /\ LET d == dequeue(proc[p].task_q)
           oi == d.value
           row == proc[p].snapshot[oi]
           qty_needed == QtyNeeded(row)
       IN  proc' = [proc EXCEPT ![p] =
             IF qty_needed <= 0
             THEN [@ EXCEPT !.task_q = d.queue,
                            !.results = Append(@, [order_item |-> oi,
                                                   status |-> "fully_allocated",
                                                   qty_remaining |-> 0])]
             ELSE [@ EXCEPT !.task_q = d.queue, !.cur = oi, !.pc = "walk",
                            !.qty_needed = qty_needed, !.qty_remaining = qty_needed,
                            !.eligible = Eligible(row.item),
                            !.stack = PushAll(<<>>, reversed(Eligible(row.item)))]]
    /\ UNCHANGED <<tables, rowLock, backend>>

\* a re-check that looks at the quantity only
SkipsEmptyOnly(available_qty, status) == available_qty <= 0

\* line 161: the locked row is passed over when it is empty or not AVAILABLE
Skips(available_qty, status) == available_qty <= 0 \/ status # STATUS_AVAILABLE

\* lines 157-194: pop the next candidate, lock its row, re-validate it and
\* take min(available, remaining) from it
AllocWalk(p) ==
    /\ proc[p].pc = "walk"
    /\ proc[p].qty_remaining > 0
    /\ proc[p].stack # <<>>
    /\ LET t == pop(proc[p].stack)
           b == t.value
           available_qty == batches[b].available_qty - PendingOn(p, b)
           qty_to_allocate == QtyToAllocate(available_qty, proc[p].qty_remaining)
       IN  /\ CanLock(p, BatchRow(b))
           /\ IF Skips(available_qty, batches[b].status)
              THEN /\ proc' = [proc EXCEPT ![p].stack = t.stack]
                   /\ rowLock' = [rowLock EXCEPT ![BatchRow(b)] = p]
              ELSE IF ViolatesNonNeg(available_qty - qty_to_allocate)
              THEN /\ proc' = [proc EXCEPT ![p] = Raised(@, "IntegrityError")]
                   /\ rowLock' = Release(p)
              ELSE /\ proc' = [proc EXCEPT
                          ![p].stack = t.stack,
                          ![p].made = Append(@, [order_item |-> proc[p].cur,
                                                 batch |-> b,
                                                 qty_allocated |-> qty_to_allocate]),
                          ![p].qty_remaining = @ - qty_to_allocate]
                   /\ rowLock' = [rowLock EXCEPT ![BatchRow(b)] = p]
    /\ UNCHANGED <<tables, backend>>

\* a classification that reports a line without any allocation as partial
LineStatusNeverFailed(qty_remaining, total_allocated) ==
    IF qty_remaining <= 0 THEN "fully_allocated" ELSE "partially_allocated"

\* lines 202-207: the status of a line after its candidates were walked
LineStatus(qty_remaining, total_allocated) ==
    IF qty_remaining <= 0 THEN "fully_allocated"
    ELSE IF total_allocated > 0 THEN "partially_allocated"
    ELSE "allocation_failed"

\* lines 196-217: add what was taken to OrderItem.qty_allocated and classify the line
AllocEndLine(p) ==
    /\ proc[p].pc = "walk"
    /\ proc[p].qty_remaining <= 0 \/ proc[p].stack = <<>>
    /\ CanLock(p, OrderItemRow(proc[p].cur))
    /\ LET total_allocated == proc[p].qty_needed - proc[p].qty_remaining
           status == LineStatus(proc[p].qty_remaining, total_allocated)
       IN  proc' = [proc EXCEPT
              ![p].pc = "dequeue",
              ![p].stack = <<>>,
              ![p].oi_updates = Append(@, [order_item |-> proc[p].cur,
                                           qty_allocated |-> total_allocated]),
              ![p].results = Append(@, [order_item |-> proc[p].cur,
                                        status |-> status,
                                        qty_remaining |-> proc[p].qty_remaining])]
    /\ rowLock' = [rowLock EXCEPT ![OrderItemRow(proc[p].cur)] = p]
    /\ UNCHANGED <<tables, backend>>

\* the rows of p's transaction as they are committed
CommittedBatches(p) ==
    [b \in DOMAIN batches |->
        [batches[b] EXCEPT !.available_qty = @ - PendingOn(p, b)]]

CommittedOrderItems(p) ==
    [i \in DOMAIN orderItems |->
        [orderItems[i] EXCEPT !.qty_allocated = @ + PendingItem(p, i)]]

\* a transaction that writes no log entry
ReserveLogNone(p) == <<>>

\* lines 175-188: one TYPE_RESERVE entry for every Allocation the call created
ReserveLog(p) ==
    [k \in 1..Len(proc[p].made) |->
        [type |-> TYPE_RESERVE, qty |-> proc[p].made[k].qty_allocated,
         batch |-> proc[p].made[k].batch, order |-> proc[p].order]]

\* lines 85-111: set the order status, or raise on total failure, or warn;
\* then the atomic block ends
AllocFinish(p) ==
    /\ proc[p].pc = "dequeue"
    /\ proc[p].task_q = <<>>
    /\ LET items_fully_allocated == Count(proc[p].results, "fully_allocated")
           items_failed == Count(proc[p].results, "allocation_failed")
           o == proc[p].order
       IN  IF items_fully_allocated = proc[p].n_items
           THEN /\ batches' = CommittedBatches(p)
                /\ orderItems' = CommittedOrderItems(p)
                /\ allocations' = allocations \o proc[p].made
                /\ txlog' = txlog \o ReserveLog(p)
                /\ orders' = [orders EXCEPT ![o].status = STATUS_ALLOCATED]
                /\ UNCHANGED notifications
                /\ proc' = [proc EXCEPT ![p].pc = "done", ![p].outcome = "allocated"]
           ELSE IF items_failed = proc[p].n_items
           \* lines 90-95: the LEVEL_ERROR Notification is created inside the
           \* atomic block and the AllocationError raised after it rolls the
           \* block back, the Notification row included
           THEN /\ UNCHANGED tables
                /\ proc' = [proc EXCEPT ![p] = Raised(@, "AllocationError")]
           ELSE /\ batches' = CommittedBatches(p)
                /\ orderItems' = CommittedOrderItems(p)
                /\ allocations' = allocations \o proc[p].made
                /\ txlog' = txlog \o ReserveLog(p)
                /\ notifications' = Append(notifications,
                                           [level |-> LEVEL_WARNING, order |-> o])
                /\ UNCHANGED orders
                /\ proc' = [proc EXCEPT ![p].pc = "done", ![p].outcome = "partial"]
    /\ rowLock' = Release(p)
    /\ UNCHANGED <<others, backend>>

-----------------------------------------------------------------------------
(* FEFO selection and splitting: one allocate_order call on a drawn database *)

\* rows a batch can have before the call: stocked and allocatable, empty,
\* dated today or earlier, held / marked expired with stock on hand, or a
\* stocked batch of item 2
FefoBatchRows ==
    [item : {1}, received_qty : {MaxAvail}, available_qty : {1, MaxAvail},
     expiry_date : {NoExpiry, Today + 1, MaxDay}, status : {STATUS_AVAILABLE}]
    \cup
    [item : {1}, received_qty : {MaxAvail}, available_qty : {0},
     expiry_date : {Today + 1}, status : {STATUS_AVAILABLE}]
    \cup
    [item : {1}, received_qty : {MaxAvail}, available_qty : {MaxAvail},
     expiry_date : {Today - 1, Today}, status : {STATUS_AVAILABLE}]
    \cup
    [item : {1}, received_qty : {MaxAvail}, available_qty : {MaxAvail},
     expiry_date : {Today + 1}, status : {STATUS_HOLD, STATUS_EXPIRED}]
    \cup
    [item : {2}, received_qty : {MaxAvail}, available_qty : {MaxAvail},
     expiry_date : {Today + 1}, status : {STATUS_AVAILABLE}]

\* order 1: a line for item 1 and, in some databases, a second line for item 2
\* or no line at all
FefoOrderItems ==
    {<<>>}
    \cup
    {[i \in {1} |-> [order |-> 1, item |-> 1, qty_requested |-> q, qty_allocated |-> 0]]
        : q \in 1..MaxReq}
    \cup
    {[i \in {1, 2} |-> [order |-> 1, item |-> i, qty_requested |-> IF i = 1 THEN q ELSE 1,
                        qty_allocated |-> 0]]
        : q \in 1..2}

\* no shipment, no return, empty undo and redo stacks
NoOthers ==
    /\ shipments = <<>>
    /\ returns = <<>>
    /\ undoStack = <<>>
    /\ redoStack = <<>>

AllRows == {BatchRow(b) : b \in BatchIds} \cup {OrderItemRow(i) : i \in 1..2}

InitFefo ==
    /\ backend \in Backends
    /\ batches \in [BatchIds -> FefoBatchRows]
    /\ \E st \in {STATUS_NEW, STATUS_CANCELLED} : orders = [o \in {1} |-> [status |-> st]]
    /\ orderItems \in FefoOrderItems
    /\ allocations = <<>>
    /\ txlog = <<>>
    /\ notifications = <<>>
    /\ NoOthers
    /\ rowLock = [r \in AllRows |-> NoOwner]
    /\ proc = [p \in Procs |-> IdleProc]

NextFefo ==
    \/ \E o \in DOMAIN orders \cup {MissingOrder} : AllocLoad(1, o)
    \/ AllocBeginLine(1)
    \/ AllocWalk(1)
    \/ AllocEndLine(1)
    \/ AllocFinish(1)

SpecFefo == InitFefo /\ [][NextFefo]_vars

-----------------------------------------------------------------------------
(* Concurrent allocate_order calls, on different orders or on the same one *)

\* two stocked batches of item 1 as received, and two one-line orders for item 1
InitConc ==
    /\ backend \in Backends
    /\ \E a \in [1..2 -> 1..MaxAvail] :
          batches = [b \in 1..2 |-> [item |-> 1, received_qty |-> a[b],
                                     available_qty |-> a[b], expiry_date |-> NoExpiry,
                                     status |-> STATUS_AVAILABLE]]
    /\ orders = [o \in 1..2 |-> [status |-> STATUS_NEW]]
    /\ \E q \in [1..2 -> 1..MaxReq] :
          orderItems = [i \in 1..2 |-> [order |-> i, item |-> 1, qty_requested |-> q[i],
                                        qty_allocated |-> 0]]
    /\ allocations = <<>>
    /\ txlog = <<>>
    /\ notifications = <<>>
    /\ NoOthers
    /\ rowLock = [r \in AllRows |-> NoOwner]
    /\ proc = [p \in Procs |-> IdleProc]

NextConc ==
    \/ \E p \in Procs, o \in DOMAIN orders : AllocLoad(p, o)
    \/ \E p \in Procs : AllocBeginLine(p)
    \/ \E p \in Procs : AllocWalk(p)
    \/ \E p \in Procs : AllocEndLine(p)
    \/ \E p \in Procs : AllocFinish(p)

SpecConc == InitConc /\ [][NextConc]_vars

-----------------------------------------------------------------------------
(* allocate_order calls while a manager edits batches *)

\* BatchUpdateView: the batch form posted with a new status and the other
\* fields as the row has them; the UPDATE waits for the row lock and commits
BatchUpdateView(b, status) ==
    /\ b \in DOMAIN batches
    /\ batches[b].status # status
    /\ rowLock[BatchRow(b)] = NoOwner
    /\ batches' = [batches EXCEPT ![b].status = status]
    /\ UNCHANGED <<orders, orderItems, allocations, txlog, notifications, others,
                   rowLock, proc, backend>>

\* two batches of item 1 with one unit each, as received, and two one-line
\* orders for item 1
InitHold ==
    /\ backend = DefaultBackend
    /\ batches = [b \in 1..2 |-> [item |-> 1, received_qty |-> 1, available_qty |-> 1,
                                  expiry_date |-> NoExpiry, status |-> STATUS_AVAILABLE]]
    /\ orders = [o \in 1..2 |-> [status |-> STATUS_NEW]]
    /\ \E q \in [1..2 -> 1..MaxReq] :
          orderItems = [i \in 1..2 |-> [order |-> i, item |-> 1, qty_requested |-> q[i],
                                        qty_allocated |-> 0]]
    /\ allocations = <<>>
    /\ txlog = <<>>
    /\ notifications = <<>>
    /\ NoOthers
    /\ rowLock = [r \in AllRows |-> NoOwner]
    /\ proc = [p \in Procs |-> IdleProc]

NextHold ==
    \/ NextConc
    \/ \E b \in DOMAIN batches : BatchUpdateView(b, STATUS_HOLD)

SpecHold == InitHold /\ [][NextHold]_vars

-----------------------------------------------------------------------------
(* Batch.reserve(qty): one caller's call in three steps *)

NCallers == 3
Callers == 1..NCallers

\* argument check, then the transaction begins
ReserveCall(p, b, qty) ==
    /\ proc[p].pc = "idle"
    /\ proc' = [proc EXCEPT ![p] =
            IF qty <= 0
            THEN [IdleProc EXCEPT !.pc = "done", !.outcome = "ValueError: quantity",
                                  !.qty = qty, !.batch = b]
            ELSE [IdleProc EXCEPT !.pc = "reserve_lock", !.qty = qty, !.batch = b]]
    /\ UNCHANGED <<tables, rowLock, backend>>

\* select_for_update().get(pk): waits for the row lock, then reads the row
ReserveLock(p) ==
    LET b == proc[p].batch
    IN  /\ proc[p].pc = "reserve_lock"
        /\ CanLock(p, BatchRow(b))
        /\ rowLock' = [rowLock EXCEPT ![BatchRow(b)] = p]
        /\ proc' = [proc EXCEPT ![p].pc = "reserve_update",
                                ![p].locked = [status |-> batches[b].status,
                                               available_qty |-> batches[b].available_qty]]
        /\ UNCHANGED <<tables, backend>>

\* a stock check that also refuses a request for everything there is
InsufficientOrAll(available_qty, qty) == available_qty <= qty

\* line 144: locked.available_qty < qty
Insufficient(available_qty, qty) == available_qty < qty

\* the two checks on the locked row, the F() update, the refresh of the locked
\* row that is returned, and the end of the transaction
ReserveUpdate(p) ==
    LET b == proc[p].batch
        locked == proc[p].locked
        new_available == batches[b].available_qty - proc[p].qty
        ends(outcome) == [proc EXCEPT ![p].pc = "done", ![p].outcome = outcome]
        gives(value) == [proc EXCEPT ![p].pc = "done", ![p].outcome = "ok",
                                       ![p].locked.available_qty = value]
    IN  /\ proc[p].pc = "reserve_update"
        /\ rowLock' = Release(p)
        /\ IF locked.status # STATUS_AVAILABLE
           THEN proc' = ends("ValueError: status") /\ UNCHANGED batches
           ELSE IF Insufficient(locked.available_qty, proc[p].qty)
           THEN proc' = ends("ValueError: insufficient") /\ UNCHANGED batches
           ELSE IF ViolatesNonNeg(new_available)
           THEN proc' = ends("IntegrityError") /\ UNCHANGED batches
           ELSE /\ batches' = [batches EXCEPT ![b].available_qty = new_available]
                /\ proc' = gives(new_available)
        /\ UNCHANGED <<orders, orderItems, allocations, txlog, notifications, others, backend>>

\* one batch, fresh from receipt or put on hold, and callers that have not called yet
InitReserve ==
    /\ backend \in Backends
    /\ \E a \in 0..MaxAvail, st \in {STATUS_AVAILABLE, STATUS_HOLD} :
          batches = [b \in {1} |-> [item |-> 1, received_qty |-> a, available_qty |-> a,
                                    expiry_date |-> NoExpiry, status |-> st]]
    /\ orders = <<>>
    /\ orderItems = <<>>
    /\ allocations = <<>>
    /\ txlog = <<>>
    /\ notifications = <<>>
    /\ NoOthers
    /\ rowLock = [r \in {BatchRow(1)} |-> NoOwner]
    /\ proc = [p \in Callers |-> IdleProc]

NextReserve ==
    \/ \E p \in Callers, qty \in 0..MaxReq : ReserveCall(p, 1, qty)
    \/ \E p \in Callers : ReserveLock(p)
    \/ \E p \in Callers : ReserveUpdate(p)

SpecReserve == InitReserve /\ [][NextReserve]_vars

-----------------------------------------------------------------------------
(* The request handlers, one request at a time *)

MaxLog == 4
MaxNotes == 2
MaxReturns == 1

DISPOSITION_RESTOCK_ORIGINAL == "restock_original"
DISPOSITION_RESTOCK_NEW == "restock_new"
DISPOSITION_QUARANTINE == "quarantine"
DISPOSITION_SCRAP == "scrap"
Dispositions ==
    {DISPOSITION_RESTOCK_ORIGINAL, DISPOSITION_RESTOCK_NEW, DISPOSITION_QUARANTINE,
     DISPOSITION_SCRAP}
RETURN_PENDING == "pending"
RETURN_RESTOCKED == "restocked"

\* the handler has answered; its caller is free for the next request
Responds(p, outcome) == proc' = [proc EXCEPT ![p] = [IdleProc EXCEPT !.outcome = outcome]]

\* the caller of allocate_order has its result (or its exception)
AllocReturn(p) ==
    /\ proc[p].pc = "done"
    /\ Responds(p, proc[p].outcome)
    /\ UNCHANGED <<tables, rowLock, backend>>

\* ReceiveView.commit with one batch row in the form
ReceiveView(p, item, qty, expiry) ==
    /\ proc[p].pc = "idle"
    /\ Len(batches) < NBatch
    /\ IF qty <= 0
       THEN /\ Responds(p, "No valid batches to create")
            /\ UNCHANGED <<batches, txlog>>
       ELSE /\ batches' = Append(batches, [item |-> item, received_qty |-> qty,
                                           available_qty |-> qty, expiry_date |-> expiry,
                                           status |-> STATUS_AVAILABLE])
            /\ txlog' = Append(txlog, [type |-> TYPE_RECEIPT, qty |-> qty,
                                       batch |-> Len(batches) + 1, order |-> MissingOrder])
            /\ Responds(p, "ok")
    /\ UNCHANGED <<orders, orderItems, allocations, notifications, others, rowLock, backend>>

\* the parameters of notify(user, message, level, notification_type)
NotifyParams == {"user", "message", "level", "notification_type"}

\* a call with a keyword notify() does not have raises TypeError
NotifyAccepts(kwargs) == kwargs \subseteq NotifyParams

\* batch.available_qty += allocation.qty_allocated for every allocation of the order
DeallocBatches(o) ==
    [b \in DOMAIN batches |->
        [batches[b] EXCEPT !.available_qty =
            @ + SumAllocated(SelectSeq(AllocsOfOrder(o), LAMBDA a : a.batch = b))]]

\* one TYPE_DEALLOCATE entry for every allocation of the order
DeallocLog(o) ==
    LET rows == AllocsOfOrder(o)
    IN  [k \in 1..Len(rows) |-> [type |-> TYPE_DEALLOCATE, qty |-> rows[k].qty_allocated,
                                 batch |-> rows[k].batch, order |-> o]]

\* DeallocateOrderView.post: inside one atomic block the allocations of the
\* order are released, logged and deleted, the lines are reset and the order
\* returns to NEW; then notify() is called with title=..., and its TypeError
\* leaves the atomic block, which is rolled back, and is reported as
\* "Deallocation failed"
DeallocateOrderView(p, o) ==
    /\ proc[p].pc = "idle"
    /\ o \in DOMAIN orders
    /\ IF NotifyAccepts({"title", "message", "level", "user"})
       THEN /\ batches' = DeallocBatches(o)
            /\ txlog' = txlog \o DeallocLog(o)
            /\ allocations' = SelectSeq(allocations,
                                        LAMBDA a : orderItems[a.order_item].order # o)
            /\ orderItems' = [i \in DOMAIN orderItems |->
                                IF orderItems[i].order = o
                                THEN [orderItems[i] EXCEPT !.qty_allocated = 0]
                                ELSE orderItems[i]]
            /\ orders' = [orders EXCEPT ![o].status = STATUS_NEW]
            /\ notifications' = Append(notifications, [level |-> LEVEL_INFO, order |-> o])
            /\ proc' = [proc EXCEPT ![p] = [IdleProc EXCEPT !.outcome = "deallocated",
                                                            !.order = o]]
       ELSE /\ UNCHANGED <<batches, txlog, allocations, orderItems, orders, notifications>>
            /\ proc' = [proc EXCEPT ![p] = [IdleProc EXCEPT !.outcome = "Deallocation failed",
                                                            !.order = o]]
    /\ UNCHANGED <<others, rowLock, backend>>

\* the message OrderCancelView.post answers for order o
CancelResponds(p, o, outcome) ==
    proc' = [proc EXCEPT ![p] = [IdleProc EXCEPT !.outcome = outcome, !.order = o]]

\* OrderCancelView.post
OrderCancelView(p, o) ==
    /\ proc[p].pc = "idle"
    /\ o \in DOMAIN orders
    /\ IF orders[o].status \in {STATUS_CANCELLED, STATUS_DELIVERED}
       THEN /\ CancelResponds(p, o, "cannot be cancelled")
            /\ UNCHANGED <<orders, orderItems, notifications>>
       ELSE IF orders[o].status = STATUS_ALLOCATED /\ AllocsOfOrder(o) # <<>>
       \* TransactionLog.TYPE_UNRESERVE does not exist: AttributeError in the
       \* first turn of the loop, the atomic block is rolled back
       THEN /\ CancelResponds(p, o, "Failed to cancel order")
            /\ UNCHANGED <<orders, orderItems, notifications>>
       ELSE /\ orderItems' =
                  IF orders[o].status = STATUS_ALLOCATED
                  THEN [i \in DOMAIN orderItems |->
                          IF orderItems[i].order = o
                          THEN [orderItems[i] EXCEPT !.qty_allocated = 0]
                          ELSE orderItems[i]]
                  ELSE orderItems
            /\ orders' = [orders EXCEPT ![o].status = STATUS_CANCELLED]
            /\ notifications' = Append(notifications,
                                       [level |-> LEVEL_WARNING, order |-> o])
            /\ CancelResponds(p, o, "successfully cancelled")
    /\ UNCHANGED <<batches, allocations, txlog, others, rowLock, backend>>

\* a shipment that logs nothing
ShipLogNone(o) == <<>>

\* lines 813-830: one TYPE_SHIP entry, with the quantity negated, for every
\* allocation of the order
ShipLog(o) ==
    LET rows == AllocsOfOrder(o)
    IN  [k \in 1..Len(rows) |-> [type |-> TYPE_SHIP, qty |-> 0 - rows[k].qty_allocated,
                                 batch |-> rows[k].batch, order |-> o]]

\* ShipView.post
ShipView(p, o) ==
    /\ proc[p].pc = "idle"
    /\ o \in DOMAIN orders
    /\ shipments' = Append(shipments, [order |-> o])
    /\ txlog' = txlog \o ShipLog(o)
    /\ allocations' = SelectSeq(allocations, LAMBDA a : orderItems[a.order_item].order # o)
    /\ orders' = [orders EXCEPT ![o].status = STATUS_SHIPPED]
    /\ notifications' = Append(notifications, [level |-> LEVEL_INFO, order |-> o])
    /\ Responds(p, "ok")
    /\ UNCHANGED <<batches, orderItems, returns, undoStack, redoStack, rowLock, backend>>

\* CreateReturnView.form_valid after ReturnForm.clean
CreateReturnView(p, oi, qty_returned) ==
    /\ proc[p].pc = "idle"
    /\ Len(returns) < MaxReturns
    /\ oi \in DOMAIN orderItems
    /\ IF qty_returned <= 0 \/ qty_returned > orderItems[oi].qty_requested
       THEN /\ Responds(p, "ValidationError")
            /\ UNCHANGED returns
       ELSE /\ returns' = Append(returns, [order_item |-> oi, qty_returned |-> qty_returned,
                                           status |-> RETURN_PENDING])
            /\ Responds(p, "ok")
    /\ UNCHANGED <<batches, orders, orderItems, allocations, txlog, notifications,
                   shipments, undoStack, redoStack, rowLock, backend>>

\* ProcessReturnView.post
ProcessReturnView(p, r, disposition, qty_accepted) ==
    LET oi == returns[r].order_item
        original_allocations == AllocsOfItem(oi)
        \* Allocation.Meta.ordering = ["-created_at"]: first() is the newest row
        batch == original_allocations[Len(original_allocations)].batch
    IN  /\ proc[p].pc = "idle"
        /\ r \in DOMAIN returns
        /\ IF qty_accepted < 0
           THEN /\ Responds(p, "ValidationError")
                /\ UNCHANGED <<batches, txlog, returns>>
           ELSE IF disposition = DISPOSITION_RESTOCK_ORIGINAL /\ original_allocations # <<>>
           THEN /\ batches' = [batches EXCEPT ![batch].available_qty = @ + qty_accepted]
                /\ txlog' = Append(txlog, [type |-> TYPE_ADJUST, qty |-> qty_accepted,
                                           batch |-> batch, order |-> orderItems[oi].order])
                /\ returns' = [returns EXCEPT ![r].status = RETURN_RESTOCKED]
                /\ Responds(p, "ok")
           ELSE IF disposition = DISPOSITION_RESTOCK_ORIGINAL
           THEN /\ Responds(p, "No original allocations found for restock.")
                /\ UNCHANGED <<batches, txlog, returns>>
           ELSE IF disposition = DISPOSITION_RESTOCK_NEW /\ Len(batches) < NBatch
           THEN /\ batches' = Append(batches, [item |-> orderItems[oi].item,
                                               received_qty |-> qty_accepted,
                                               available_qty |-> qty_accepted,
                                               expiry_date |-> NoExpiry,
                                               status |-> STATUS_AVAILABLE])
                /\ txlog' = Append(txlog, [type |-> TYPE_RECEIPT, qty |-> qty_accepted,
                                           batch |-> Len(batches) + 1,
                                           order |-> orderItems[oi].order])
                /\ returns' = [returns EXCEPT ![r].status = RETURN_RESTOCKED]
                /\ Responds(p, "ok")
           \* Batch.STATUS_QUARANTINE does not exist (AttributeError) and
           \* TransactionLog has no notes field (TypeError): rolled back
           ELSE /\ disposition \in {DISPOSITION_QUARANTINE, DISPOSITION_SCRAP}
                /\ Responds(p, "error")
                /\ UNCHANGED <<batches, txlog, returns>>
        /\ UNCHANGED <<orders, orderItems, allocations, notifications, shipments,
                       undoStack, redoStack, rowLock, backend>>

\* reading an attribute the popped record does not have raises AttributeError
HasField(record, name) == name \in DOMAIN record

\* perform_undo(user, count = 1): UndoStack.pop() deletes the top record in its
\* own transaction and returns a copy with op_name and metadata; line 292
\* reads undo_op.operation_type outside the try block, so the AttributeError
\* leaves perform_undo with the record deleted. Were the attribute there, the
\* handler would run and raise inside its atomic block (TransactionLog has no
\* qty_change / transaction_type / notes, Order has no STATUS_PENDING), and the
\* re-push UndoStack.push(operation_type=...) of lines 315-320 would raise
\* TypeError: no path puts a record back or onto RedoStack
perform_undo(p) ==
    /\ proc[p].pc = "idle"
    /\ IF undoStack = <<>>
       THEN /\ Responds(p, "No more operations to undo")
            /\ UNCHANGED undoStack
       ELSE LET undo_op == pop(undoStack).value
            IN  /\ undoStack' = pop(undoStack).stack
                /\ IF HasField(undo_op, "operation_type")
                   THEN Responds(p, "TypeError: UndoStack.push")
                   ELSE Responds(p, "AttributeError: UndoStack.operation_type")
    /\ UNCHANGED <<batches, orders, orderItems, allocations, txlog, notifications,
                   shipments, returns, redoStack, rowLock, backend>>

\* perform_redo(user, count = 1): the same over RedoStack (line 345)
perform_redo(p) ==
    /\ proc[p].pc = "idle"
    /\ IF redoStack = <<>>
       THEN /\ Responds(p, "No more operations to redo")
            /\ UNCHANGED redoStack
       ELSE LET redo_op == pop(redoStack).value
            IN  /\ redoStack' = pop(redoStack).stack
                /\ IF HasField(redo_op, "operation_type")
                   THEN Responds(p, "TypeError: RedoStack.push")
                   ELSE Responds(p, "AttributeError: RedoStack.operation_type")
    /\ UNCHANGED <<batches, orders, orderItems, allocations, txlog, notifications,
                   shipments, returns, undoStack, rowLock, backend>>

\* the tables have room for what one more request can append
Bounded == Len(txlog) < MaxLog /\ Len(notifications) < MaxNotes

\* an empty warehouse, two one-line orders for item 1, and one record on each
\* stack as the admin site can create them
Init ==
    /\ backend = DefaultBackend
    /\ batches = <<>>
    /\ orders = [o \in 1..2 |-> [status |-> STATUS_NEW]]
    /\ orderItems = [i \in 1..2 |-> [order |-> i, item |-> 1, qty_requested |-> i,
                                      qty_allocated |-> 0]]
    /\ allocations = <<>>
    /\ txlog = <<>>
    /\ notifications = <<>>
    /\ shipments = <<>>
    /\ returns = <<>>
    /\ undoStack = <<[op_name |-> "allocation", metadata |-> 1]>>
    /\ redoStack = <<[op_name |-> "allocation", metadata |-> 1]>>
    /\ rowLock = [r \in AllRows |-> NoOwner]
    /\ proc = [p \in Procs |-> IdleProc]

Next ==
    \/ \E qty \in 0..MaxAvail : Bounded /\ ReceiveView(1, 1, qty, MaxDay)
    \/ \E o \in DOMAIN orders \cup {MissingOrder} : Bounded /\ AllocLoad(1, o)
    \/ AllocBeginLine(1)
    \/ AllocWalk(1)
    \/ AllocEndLine(1)
    \/ AllocFinish(1)
    \/ AllocReturn(1)
    \/ \E o \in DOMAIN orders : DeallocateOrderView(1, o)
    \/ \E o \in DOMAIN orders : Bounded /\ OrderCancelView(1, o)
    \/ \E o \in DOMAIN orders : Bounded /\ ShipView(1, o)
    \/ \E oi \in DOMAIN orderItems, q \in 0..MaxReq : CreateReturnView(1, oi, q)
    \/ \E r \in DOMAIN returns, d \in Dispositions, q \in 0..MaxAvail :
          Bounded /\ ProcessReturnView(1, r, d, q)
    \/ perform_undo(1)
    \/ perform_redo(1)

Spec == Init /\ [][Next]_vars

-----------------------------------------------------------------------------
(* What the specification says of FEFO selection, stated independently of the query *)

\* ascending expiry_date, batches without expiry after all dated ones, ties by id
FefoBefore(a, b) ==
    LET ea == batches[a].expiry_date
        eb == batches[b].expiry_date
    IN  IF ea = eb THEN a < b
        ELSE IF ea = NoExpiry THEN FALSE
        ELSE IF eb = NoExpiry THEN TRUE
        ELSE ea < eb

RECURSIVE FefoSort(_)
FefoSort(S) ==
    IF S = {} THEN <<>>
    ELSE LET m == CHOOSE x \in S : \A y \in S \ {x} : FefoBefore(x, y)
         IN  <<m>> \o FefoSort(S \ {m})

\* status AVAILABLE, stock on hand, no expiry or an expiry in the future
SpecEligible(b, item) ==
    /\ batches[b].item = item
    /\ batches[b].status = STATUS_AVAILABLE
    /\ batches[b].available_qty > 0
    /\ (batches[b].expiry_date = NoExpiry \/ batches[b].expiry_date > Today)

FefoCandidates(item) == FefoSort({b \in DOMAIN batches : SpecEligible(b, item)})

RECURSIVE SumAvailable(_)
SumAvailable(S) ==
    IF S = {} THEN 0
    ELSE LET b == CHOOSE x \in S : TRUE
         IN  batches[b].available_qty + SumAvailable(S \ {b})

TotalEligible(item) == SumAvailable({b \in DOMAIN batches : SpecEligible(b, item)})

RECURSIVE GreedySplit(_, _)
\* min(available, remaining) from each candidate in turn until nothing remains
GreedySplit(cands, remaining) ==
    IF cands = <<>> \/ remaining <= 0 THEN <<>>
    ELSE LET b == Head(cands)
             take == Min(batches[b].available_qty, remaining)
         IN  <<[batch |-> b, qty_allocated |-> take]>>
                 \o GreedySplit(Tail(cands), remaining - take)

IsPrefix(s, t) == Len(s) <= Len(t) /\ \A k \in 1..Len(s) : s[k] = t[k]

\* the (batch, quantity) pairs of the Allocation rows of one order line, in creation order
SplitOf(table, i) ==
    LET rows == SelectSeq(table, LAMBDA a : a.order_item = i)
    IN  [k \in 1..Len(rows) |-> [batch |-> rows[k].batch,
                                 qty_allocated |-> rows[k].qty_allocated]]

BatchesOf(table, i) ==
    LET rows == SelectSeq(table, LAMBDA a : a.order_item = i)
    IN  [k \in 1..Len(rows) |-> rows[k].batch]

AllocCount(table, b) == Len(SelectSeq(table, LAMBDA a : a.batch = b))

\* the step in which caller p's allocate_order call ends after the line loop
FinishStep(p) ==
    /\ proc[p].pc = "dequeue"
    /\ proc[p].task_q = <<>>
    /\ proc'[p].pc = "done"

NeededBy(i) == orderItems[i].qty_requested - orderItems[i].qty_allocated

\* C6: each order line consumes the eligible batches of its item in ascending
\* expiry order, batches without expiry after all dated ones, ties by batch id
\* (so the batches it allocated from are a prefix of that FEFO sequence).
C6_FefoOrder ==
    [][FinishStep(1) =>
        \A i \in DOMAIN orderItems :
            IsPrefix(BatchesOf(allocations', i), FefoCandidates(orderItems[i].item))]_vars

\* C7: when the eligible stock covers the line, the Allocation rows of the line
\* are exactly min(available, remaining) from each batch of the FEFO sequence
\* in turn, stopping when nothing remains, and they sum to the quantity needed.
C7_GreedySplit ==
    [][FinishStep(1) =>
        \A i \in DOMAIN orderItems :
            (NeededBy(i) > 0 /\ TotalEligible(orderItems[i].item) >= NeededBy(i)
             /\ proc'[1].outcome \in {"allocated", "partial"})
            => /\ SplitOf(allocations', i)
                    = GreedySplit(FefoCandidates(orderItems[i].item), NeededBy(i))
               /\ SumAllocated(SplitOf(allocations', i)) = NeededBy(i)]_vars

\* a batch that is not AVAILABLE or whose expiry date is in the past
Unallocatable(b) ==
    \/ batches[b].status # STATUS_AVAILABLE
    \/ (batches[b].expiry_date # NoExpiry /\ batches[b].expiry_date < Today)

\* C8: no step of allocate_order takes stock from, or creates an Allocation
\* against, a batch that is not AVAILABLE or is past its expiry date; a line
\* whose eligible stock suffices is still fully allocated from the other batches.
C8_NeverUnallocatable ==
    [][/\ \A b \in DOMAIN batches :
            Unallocatable(b) =>
                /\ batches'[b].available_qty = batches[b].available_qty
                /\ AllocCount(allocations', b) = AllocCount(allocations, b)
                /\ \A p \in Procs : AllocCount(proc'[p].made, b) = 0
       /\ FinishStep(1) =>
            \A k \in 1..Len(proc[1].results) :
                LET r == proc[1].results[k]
                IN  TotalEligible(orderItems[r.order_item].item) >= NeededBy(r.order_item)
                        => r.status = "fully_allocated"]_vars

\* C8 witness: the call ended allocated although a held or expired batch with
\* stock on hand sorts before a batch the call took stock from
C8_Witness ==
    /\ proc[1].pc = "done"
    /\ proc[1].outcome = "allocated"
    /\ \E k \in 1..Len(allocations) : \E b \in DOMAIN batches :
          /\ Unallocatable(b)
          /\ batches[b].available_qty > 0
          /\ batches[b].item = batches[allocations[k].batch].item
          /\ FefoBefore(b, allocations[k].batch)

\* C9: a line that requests more than the eligible stock of its item gets no
\* Allocation row, the batches of its item keep their available_qty and the
\* line is reported allocation_failed.
C9_InsufficientStock ==
    [][FinishStep(1) =>
        \A k \in 1..Len(proc[1].results) :
            LET r == proc[1].results[k]
                i == r.order_item
            IN  NeededBy(i) > TotalEligible(orderItems[i].item)
                => /\ SplitOf(allocations', i) = <<>>
                   /\ \A b \in DOMAIN batches :
                         batches[b].item = orderItems[i].item
                            => batches'[b].available_qty = batches[b].available_qty
                   /\ r.status = "allocation_failed"]_vars

\* C10: when one line of the order can be fully allocated and another line has
\* no eligible stock at all, the call fails and leaves nothing behind: no
\* Allocation row of the order and every batch quantity as before.
C10_NoPartialData ==
    [][(/\ FinishStep(1)
        /\ \E i \in DOMAIN orderItems :
              /\ orderItems[i].order = proc[1].order
              /\ NeededBy(i) > 0
              /\ TotalEligible(orderItems[i].item) >= NeededBy(i)
        /\ \E j \in DOMAIN orderItems :
              /\ orderItems[j].order = proc[1].order
              /\ NeededBy(j) > 0
              /\ TotalEligible(orderItems[j].item) = 0)
       => /\ proc'[1].outcome = "AllocationError"
          /\ \A i \in DOMAIN orderItems :
                orderItems[i].order = proc[1].order => SplitOf(allocations', i) = <<>>
          /\ \A b \in DOMAIN batches :
                batches'[b].available_qty = batches[b].available_qty]_vars

RECURSIVE SumQty(_)
SumQty(S) ==
    IF S = {} THEN 0
    ELSE LET p == CHOOSE x \in S : TRUE
         IN  proc[p].qty + SumQty(S \ {p})

Succeeded == {p \in DOMAIN proc : proc[p].pc = "done" /\ proc[p].outcome = "ok"}
Returned == {p \in DOMAIN proc : proc[p].pc = "done"}

RECURSIVE SumRequested(_)
SumRequested(S) ==
    IF S = {} THEN 0
    ELSE LET i == CHOOSE x \in S : TRUE
         IN  orderItems[i].qty_requested + SumRequested(S \ {i})

RECURSIVE SumReceived(_)
SumReceived(S) ==
    IF S = {} THEN 0
    ELSE LET b == CHOOSE x \in S : TRUE
         IN  batches[b].received_qty + SumReceived(S \ {b})

\* the lines of the orders some caller has asked to allocate
CalledLines == {i \in DOMAIN orderItems : \E p \in DOMAIN proc : proc[p].order = orderItems[i].order}

\* C2: with callers allocating different orders from the same batches, the
\* Allocation rows on a batch never add up to more than the batch had, no
\* available_qty is negative, and when every call has returned and the orders
\* asked for more than there was, some call ended without a full allocation.
C2_ConcurrentNoOversell ==
    /\ \A b \in DOMAIN batches :
          /\ SumAllocated(AllocsOfBatch(b)) <= batches[b].received_qty
          /\ batches[b].available_qty >= 0
    /\ (Returned = DOMAIN proc /\ SumRequested(CalledLines) > SumReceived(DOMAIN batches))
          => \E p \in DOMAIN proc : proc[p].outcome # "allocated"

\* C2 witness: two calls for different orders have returned, both orders hold
\* an Allocation on one batch that is now empty, and one call ended partial
C2_Witness ==
    /\ Returned = DOMAIN proc
    /\ proc[1].order # proc[2].order
    /\ \E b \in DOMAIN batches :
          /\ batches[b].available_qty = 0
          /\ \E j, k \in 1..Len(allocations) :
                /\ allocations[j].batch = b
                /\ allocations[k].batch = b
                /\ allocations[j].order_item # allocations[k].order_item
    /\ \E p \in DOMAIN proc : proc[p].outcome = "partial"

\* C5: every OrderItem keeps 0 <= qty_allocated <= qty_requested, also when
\* allocate_order runs more than once, or concurrently, on the same order.
C5_ItemWithinRequested ==
    \A i \in DOMAIN orderItems :
        /\ 0 <= orderItems[i].qty_allocated
        /\ orderItems[i].qty_allocated <= orderItems[i].qty_requested

\* C3: in every committed state every batch has available_qty >= 0 and
\* received_qty - available_qty equal to the sum of the Allocation rows on it.
C3_Conservation ==
    \A b \in DOMAIN batches :
        /\ batches[b].available_qty >= 0
        /\ batches[b].received_qty - batches[b].available_qty
              = SumAllocated(AllocsOfBatch(b))

\* C4: every batch keeps 0 <= available_qty <= received_qty; no operation
\* raises it above received_qty or lowers it below zero.
C4_AvailableWithinReceived ==
    \A b \in DOMAIN batches :
        /\ 0 <= batches[b].available_qty
        /\ batches[b].available_qty <= batches[b].received_qty

-----------------------------------------------------------------------------
(* The outcome of an allocate_order call *)

\* the lines of caller p's order that got an Allocation row in this call
LinesServed(p) == {proc[p].made[k].order_item : k \in 1..Len(proc[p].made)}

\* the lines of caller p's order that did not end fully allocated
LinesShort(p) ==
    {proc[p].results[k].order_item : k \in
        {j \in 1..Len(proc[p].results) : proc[p].results[j].status # "fully_allocated"}}

MixedOutcome(p) == LinesServed(p) # {} /\ LinesShort(p) # {}

C12_AllocatedOnlyWhenFull ==
    [][/\ FinishStep(1) =>
            LET o == proc[1].order
            IN  /\ (LinesShort(1) = {} /\ Len(proc[1].results) = proc[1].n_items)
                      => /\ orders'[o].status = STATUS_ALLOCATED
                         /\ proc'[1].outcome = "allocated"
                /\ LinesShort(1) # {}
                      => /\ orders'[o].status = orders[o].status
                         /\ orders'[o].status # STATUS_ALLOCATED
                         /\ proc'[1].outcome # "allocated"
       /\ ~FinishStep(1) => orders' = orders]_vars

\* C12 witness: a call on a two-line order has returned with both lines fully
\* allocated and the order is ALLOCATED
C12_Witness ==
    /\ proc[1].pc = "done"
    /\ proc[1].outcome = "allocated"
    /\ proc[1].n_items = 2
    /\ \A k \in 1..2 : proc[1].results[k].status = "fully_allocated"
    /\ Len(allocations) >= 2
    /\ orders[1].status = STATUS_ALLOCATED

\* the step in which caller p's allocate_order call is made
LoadStep(p) == proc[p].pc = "idle" /\ proc'[p].pc # "idle"

LinesOfOrder(o) == {i \in DOMAIN orderItems : orderItems[i].order = o}

\* C13: a call for an unknown order id fails with OrderNotFoundError, a call
\* for a CANCELLED order or an order without lines fails with AllocationError,
\* and in each case no batch, order, order item, allocation, log or
\* notification row is created or changed.
C13_RefusedCalls ==
    [][LoadStep(1) =>
        LET o == proc'[1].order
            refused == \/ o \notin DOMAIN orders
                       \/ orders[o].status = STATUS_CANCELLED
                       \/ LinesOfOrder(o) = {}
        IN  /\ o \notin DOMAIN orders
                 => proc'[1].pc = "done" /\ proc'[1].outcome = "OrderNotFoundError"
            /\ (o \in DOMAIN orders /\ orders[o].status = STATUS_CANCELLED)
                 => proc'[1].pc = "done" /\ proc'[1].outcome = "AllocationError"
            /\ (o \in DOMAIN orders /\ LinesOfOrder(o) = {})
                 => proc'[1].pc = "done" /\ proc'[1].outcome = "AllocationError"
            /\ refused
                 => /\ batches' = batches /\ orders' = orders
                    /\ orderItems' = orderItems /\ allocations' = allocations
                    /\ txlog' = txlog /\ notifications' = notifications
                    /\ proc'[1].made = <<>>]_vars

\* C13 witness: the call for a CANCELLED order whose line could have been
\* served from stock has ended with AllocationError and nothing was written
C13_Witness ==
    /\ proc[1].pc = "done"
    /\ proc[1].order = 1
    /\ proc[1].outcome = "AllocationError"
    /\ orders[1].status = STATUS_CANCELLED
    /\ \E i \in DOMAIN orderItems : TotalEligible(orderItems[i].item) >= NeededBy(i)
    /\ allocations = <<>> /\ txlog = <<>> /\ notifications = <<>>

\* every line of caller p's order ended with nothing allocated and something
\* still needed
AllLinesFailed(p) ==
    /\ Len(proc[p].results) = proc[p].n_items
    /\ proc[p].made = <<>>
    /\ \A k \in 1..Len(proc[p].results) : proc[p].results[k].qty_remaining > 0

\* C14: when every line of the order ends allocation_failed the call raises
\* AllocationError and the batch quantities, the Allocation rows, every
\* qty_allocated, the order status and the transaction log are as they were
\* before the call (no step of the call before its end writes a committed row).
C14_TotalFailureRollsBack ==
    [][/\ (FinishStep(1) /\ AllLinesFailed(1))
            => /\ \A k \in 1..Len(proc[1].results) :
                     proc[1].results[k].status = "allocation_failed"
               /\ proc'[1].outcome = "AllocationError"
               /\ batches' = batches
               /\ allocations' = allocations
               /\ orderItems' = orderItems
               /\ orders' = orders
               /\ txlog' = txlog
       /\ (proc[1].pc # "idle" /\ ~FinishStep(1))
            => /\ batches' = batches
               /\ allocations' = allocations
               /\ orderItems' = orderItems
               /\ orders' = orders
               /\ txlog' = txlog]_vars

\* C14 witness: the call on a two-line order none of whose lines has eligible
\* stock has ended with AllocationError; nothing is allocated or logged
C14_Witness ==
    /\ proc[1].pc = "done"
    /\ proc[1].outcome = "AllocationError"
    /\ proc[1].n_items = 2
    /\ \A k \in 1..2 : proc[1].results[k].status = "allocation_failed"
    /\ orders[1].status = STATUS_NEW
    /\ allocations = <<>>
    /\ txlog = <<>>
    /\ \A i \in DOMAIN orderItems : orderItems[i].qty_allocated = 0

\* C15: after a call has ended in total failure an error-level notification
\* about its order is among the recorded notifications.
C15_ErrorNotificationRecorded ==
    [][(FinishStep(1) /\ AllLinesFailed(1)) =>
        \E n \in 1..Len(notifications') :
            /\ notifications'[n].level = LEVEL_ERROR
            /\ notifications'[n].order = proc[1].order]_vars

-----------------------------------------------------------------------------
(* The contract of Batch.reserve *)

\* the step in which caller p's reserve call ends
ReserveEnds(p) == proc[p].pc # "done" /\ proc'[p].pc = "done"

Failed(outcome) == outcome \in {"ValueError: quantity", "ValueError: status",
                                "ValueError: insufficient", "IntegrityError"}

\* C16: reserve(qty) fails and leaves the batch as it is when qty <= 0, when
\* the batch is not AVAILABLE or when it holds less than qty; otherwise it
\* lowers available_qty by exactly qty, changes nothing else on the batch and
\* returns the new available_qty. Steps that do not end a call leave the batch
\* alone.
C16_ReserveContract ==
    [][\A p \in Callers :
         /\ ReserveEnds(p) =>
              LET b == proc'[p].batch
                  qty == proc'[p].qty
                  refuse == \/ qty <= 0
                            \/ batches[b].status # STATUS_AVAILABLE
                            \/ batches[b].available_qty < qty
              IN  /\ refuse => Failed(proc'[p].outcome) /\ batches' = batches
                  /\ ~refuse =>
                        /\ proc'[p].outcome = "ok"
                        /\ batches' = [batches EXCEPT ![b].available_qty = @ - qty]
                        /\ proc'[p].locked.available_qty = batches'[b].available_qty
         /\ (\A q \in Callers : ~ReserveEnds(q)) => batches' = batches]_vars

\* C16 witness: on one batch one call took everything there was and returned
\* 0, one was refused for insufficient stock and one for a quantity of 0
C16_Witness ==
    /\ batches[1].status = STATUS_AVAILABLE
    /\ batches[1].received_qty = MaxAvail
    /\ batches[1].available_qty = 0
    /\ \E p \in Callers :
          /\ proc[p].pc = "done" /\ proc[p].outcome = "ok"
          /\ proc[p].qty = MaxAvail /\ proc[p].locked.available_qty = 0
    /\ \E p \in Callers : proc[p].outcome = "ValueError: insufficient"
    /\ \E p \in Callers : proc[p].outcome = "ValueError: quantity"

-----------------------------------------------------------------------------
(* Candidates that changed after the candidate query *)

\* the step in which caller p pops a candidate and looks at its locked row
PopStep(p) ==
    /\ proc[p].pc = "walk"
    /\ proc[p].qty_remaining > 0
    /\ proc[p].stack # <<>>
    /\ proc'[p] # proc[p]

\* C17: a candidate found empty or not AVAILABLE on its locked row (another
\* transaction changed it after the candidate query) is skipped: the call stays
\* in the walk of the same line with the next candidate on top, no error ends
\* it, and nothing is taken from the skipped batch.
C17_SkipsChangedCandidate ==
    [][\A p \in Procs :
         PopStep(p) =>
            LET b == pop(proc[p].stack).value
            IN  (batches[b].available_qty <= 0 \/ batches[b].status # STATUS_AVAILABLE)
                => /\ proc'[p].pc = "walk"
                   /\ proc'[p].cur = proc[p].cur
                   /\ proc'[p].outcome = "none"
                   /\ proc'[p].stack = pop(proc[p].stack).stack
                   /\ proc'[p].made = proc[p].made
                   /\ proc'[p].qty_remaining = proc[p].qty_remaining
                   /\ batches' = batches]_vars

\* C17 witness: batch 1 was a candidate of the call and was put on hold with
\* stock on hand before the call reached it; the call has returned fully
\* allocated from batch 2 alone
C17_Witness ==
    \E p \in Procs :
        /\ proc[p].pc = "done"
        /\ proc[p].outcome = "allocated"
        /\ proc[p].eligible = <<1, 2>>
        /\ batches[1].status = STATUS_HOLD
        /\ batches[1].available_qty = batches[1].received_qty
        /\ \E k \in 1..Len(allocations) :
              allocations[k].order_item = proc[p].cur /\ allocations[k].batch = 2

-----------------------------------------------------------------------------
(* Deallocation *)

\* the step in which the deallocation request for order o is answered
DeallocStep(o) ==
    /\ proc[1].pc = "idle"
    /\ proc'[1].pc = "idle"
    /\ proc'[1].order = o
    /\ proc'[1].outcome \in {"deallocated", "Deallocation failed"}
    /\ proc'[1] # proc[1]

\* C18: deallocating an order that holds allocations deletes every Allocation
\* of the order, gives each batch back exactly what was allocated from it,
\* logs one DEALLOCATE entry per released allocation, resets every line's
\* qty_allocated to 0 and sets the order NEW, all in one step.
C18_DeallocateReleases ==
    [][\A o \in DOMAIN orders :
         (DeallocStep(o) /\ AllocsOfOrder(o) # <<>>) =>
            /\ SelectSeq(allocations', LAMBDA a : orderItems[a.order_item].order = o) = <<>>
            /\ \A b \in DOMAIN batches :
                  batches'[b].available_qty
                     = batches[b].available_qty
                         + SumAllocated(SelectSeq(AllocsOfOrder(o), LAMBDA a : a.batch = b))
            /\ Len(SelectSeq(txlog', LAMBDA t : t.type = TYPE_DEALLOCATE /\ t.order = o))
                  = Len(SelectSeq(txlog, LAMBDA t : t.type = TYPE_DEALLOCATE /\ t.order = o))
                       + Len(AllocsOfOrder(o))
            /\ \A i \in DOMAIN orderItems :
                  orderItems[i].order = o => orderItems'[i].qty_allocated = 0
            /\ orders'[o].status = STATUS_NEW]_vars

-----------------------------------------------------------------------------
(* Undo and redo *)

\* the step in which perform_undo handles the record on top of a non-empty UndoStack
UndoStep ==
    /\ proc[1].pc = "idle"
    /\ undoStack # <<>>
    /\ proc'[1].outcome \in {"TypeError: UndoStack.push",
                             "AttributeError: UndoStack.operation_type", "undone"}
    /\ (proc'[1] # proc[1] \/ undoStack' # undoStack \/ redoStack' # redoStack)

\* the order the record on top of UndoStack is about
UndoTarget == pop(undoStack).value.metadata

-----------------------------------------------------------------------------
(* Undo and redo over stacks holding records of every operation type *)

MaxHist == 2    \* records on each stack at the start

\* the operation types with an undo handler, those with a redo handler, and
\* the one ApplySandboxOperationsView tries to push, which has neither
UNDO_HANDLERS == {"allocation", "receive", "ship", "restock"}
REDO_HANDLERS == {"allocation", "receive"}
OpNames == UNDO_HANDLERS \cup {"reserve"}

\* a record about order 1 or batch 1
HistoryRecords == [op_name : OpNames, metadata : {1}]

Stacks == UNION {[1..n -> HistoryRecords] : n \in 0..MaxHist}

\* one batch of one unit as received, order 1 asking for that unit, and any
\* records on the two stacks
InitHistory ==
    /\ backend = DefaultBackend
    /\ batches = [b \in {1} |-> [item |-> 1, received_qty |-> 1, available_qty |-> 1,
                                 expiry_date |-> NoExpiry, status |-> STATUS_AVAILABLE]]
    /\ orders = [o \in {1} |-> [status |-> STATUS_NEW]]
    /\ orderItems = [i \in {1} |-> [order |-> 1, item |-> 1, qty_requested |-> 1,
                                    qty_allocated |-> 0]]
    /\ allocations = <<>>
    /\ txlog = <<>>
    /\ notifications = <<>>
    /\ shipments = <<>>
    /\ returns = <<>>
    /\ undoStack \in Stacks
    /\ redoStack \in Stacks
    /\ rowLock = [r \in AllRows |-> NoOwner]
    /\ proc = [p \in Procs |-> IdleProc]

NextHistory ==
    \/ AllocLoad(1, 1)
    \/ AllocBeginLine(1)
    \/ AllocWalk(1)
    \/ AllocEndLine(1)
    \/ AllocFinish(1)
    \/ AllocReturn(1)
    \/ perform_undo(1)
    \/ perform_redo(1)

SpecHistory == InitHistory /\ [][NextHistory]_vars

-----------------------------------------------------------------------------
(* The transaction ledger while rows it refers to are deleted *)

NoBatch == 0    \* TransactionLog.batch is NULL

\* TransactionLog.save() on a row that already has a primary key
TransactionLogSave(p, k, qty) ==
    /\ proc[p].pc = "idle"
    /\ k \in DOMAIN txlog
    /\ Responds(p, "ValueError: immutable")
    /\ UNCHANGED <<tables, rowLock, backend>>

\* on_delete=SET_NULL of the references a TransactionLog row holds
SetNullBatch(log, b) ==
    [k \in DOMAIN log |-> IF log[k].batch = b THEN [log[k] EXCEPT !.batch = NoBatch]
                          ELSE log[k]]

SetNullOrder(log, o) ==
    [k \in DOMAIN log |-> IF log[k].order = o THEN [log[k] EXCEPT !.order = MissingOrder]
                          ELSE log[k]]

\* BatchDeleteView: Allocation.batch is PROTECT, TransactionLog.batch is SET_NULL
BatchDeleteView(p, b) ==
    /\ proc[p].pc = "idle"
    /\ b \in DOMAIN batches
    /\ IF AllocsOfBatch(b) # <<>>
       THEN /\ Responds(p, "ProtectedError")
            /\ UNCHANGED <<batches, txlog>>
       ELSE /\ batches' = [x \in DOMAIN batches \ {b} |-> batches[x]]
            /\ txlog' = SetNullBatch(txlog, b)
            /\ Responds(p, "ok")
    /\ UNCHANGED <<orders, orderItems, allocations, notifications, others, rowLock, backend>>

\* OrderDeleteView: order items, allocations, shipments and returns CASCADE,
\* TransactionLog.order is SET_NULL
OrderDeleteView(p, o) ==
    /\ proc[p].pc = "idle"
    /\ o \in DOMAIN orders
    /\ orders' = [x \in DOMAIN orders \ {o} |-> orders[x]]
    /\ orderItems' = [i \in {x \in DOMAIN orderItems : orderItems[x].order # o}
                        |-> orderItems[i]]
    /\ allocations' = SelectSeq(allocations, LAMBDA a : orderItems[a.order_item].order # o)
    /\ shipments' = SelectSeq(shipments, LAMBDA s : s.order # o)
    /\ returns' = SelectSeq(returns, LAMBDA r : orderItems[r.order_item].order # o)
    /\ txlog' = SetNullOrder(txlog, o)
    /\ Responds(p, "ok")
    /\ UNCHANGED <<batches, notifications, undoStack, redoStack, rowLock, backend>>

\* two received batches of item 1; order 1 holds one unit of batch 1; the
\* ledger has the two RECEIPT rows and the RESERVE row
InitLedger ==
    /\ backend = DefaultBackend
    /\ \E a \in [1..2 -> 1..MaxAvail], e \in [1..2 -> {NoExpiry, MaxDay}] :
          /\ batches = [b \in 1..2 |->
                          [item |-> 1, received_qty |-> a[b],
                           available_qty |-> IF b = 1 THEN a[b] - 1 ELSE a[b],
                           expiry_date |-> e[b], status |-> STATUS_AVAILABLE]]
          /\ txlog = <<[type |-> TYPE_RECEIPT, qty |-> a[1], batch |-> 1, order |-> MissingOrder],
                       [type |-> TYPE_RECEIPT, qty |-> a[2], batch |-> 2, order |-> MissingOrder],
                       [type |-> TYPE_RESERVE, qty |-> 1, batch |-> 1, order |-> 1]>>
    /\ orders = [o \in {1} |-> [status |-> STATUS_ALLOCATED]]
    /\ orderItems = [i \in {1} |-> [order |-> 1, item |-> 1, qty_requested |-> 1,
                                    qty_allocated |-> 1]]
    /\ allocations = <<[order_item |-> 1, batch |-> 1, qty_allocated |-> 1]>>
    /\ notifications = <<>>
    /\ NoOthers
    /\ rowLock = [r \in AllRows |-> NoOwner]
    /\ proc = [p \in Procs |-> IdleProc]

NextLedger ==
    \/ \E k \in DOMAIN txlog, qty \in 0..MaxAvail : TransactionLogSave(1, k, qty)
    \/ \E b \in DOMAIN batches : BatchDeleteView(1, b)
    \/ \E o \in DOMAIN orders : OrderDeleteView(1, o)

SpecLedger == InitLedger /\ [][NextLedger]_vars

\* C22: no step changes or removes a TransactionLog row that exists: the log
\* only grows and every existing row keeps every field.
C22_LedgerImmutable ==
    [][/\ Len(txlog') >= Len(txlog)
       /\ \A k \in DOMAIN txlog : txlog'[k] = txlog[k]]_vars

-----------------------------------------------------------------------------
(* Lock scope and progress of concurrent allocate_order calls *)

\* the batch rows whose lock caller p holds
BatchLocksOf(p) == {b \in DOMAIN batches : rowLock[BatchRow(b)] = p}

\* C23: no allocate_order call holds the row locks of two batches at once, and
\* none holds a batch lock while it is between two lines (about to compute the
\* next candidate list).
C23_OneBatchLockAtATime ==
    \A p \in Procs :
        /\ Cardinality(BatchLocksOf(p)) <= 1
        /\ (proc[p].pc = "dequeue" /\ proc[p].task_q # <<>>) => BatchLocksOf(p) = {}

-----------------------------------------------------------------------------
(* allocate_order calls on two orders whose lines name the same two items in
   opposite order, under weak fairness on each caller *)

\* the row the caller's next statement locks: the popped candidate at
\* select_for_update (line 160) or the OrderItem row at the F-update (line 197)
Wants(p) ==
    IF proc[p].pc = "walk" /\ proc[p].qty_remaining > 0 /\ proc[p].stack # <<>>
    THEN {BatchRow(pop(proc[p].stack).value)}
    ELSE IF proc[p].pc = "walk"
    THEN {OrderItemRow(proc[p].cur)}
    ELSE {}

\* the caller whose transaction holds the row p waits for, NoOwner when p does not wait
BlockerOf(p) ==
    IF \E r \in Wants(p) : rowLock[r] \notin {NoOwner, p}
    THEN rowLock[CHOOSE r \in Wants(p) : TRUE]
    ELSE NoOwner

RECURSIVE Follow(_, _)
\* the caller reached from p after n edges of the wait-for graph
Follow(p, n) ==
    IF n = 0 THEN p
    ELSE LET q == Follow(p, n - 1)
         IN  IF q = NoOwner THEN NoOwner ELSE BlockerOf(q)

\* a database that never finds a wait-for cycle
InCycleNever(p) == FALSE

\* the database's deadlock detector: p's transaction waits in a cycle of the
\* wait-for graph
InCycle(p) == \E n \in 1..NProcs : Follow(p, n) = p

\* the database ends one transaction of a wait-for cycle: select_for_update
\* (line 160) raises OperationalError in that caller, the atomic block is
\* rolled back and its row locks are released
DeadlockAbort(p) ==
    /\ InCycle(p)
    /\ proc' = [proc EXCEPT ![p] = Raised(@, "OperationalError")]
    /\ rowLock' = Release(p)
    /\ UNCHANGED <<tables, backend>>

\* batch 1 holds item 1 and batch 2 holds item 2; order 1 asks for item 1 then
\* item 2, order 2 for item 2 then item 1
LiveItemOf == <<1, 2, 2, 1>>
LiveOrderOf == <<1, 1, 2, 2>>

InitLive ==
    /\ backend = "postgresql"
    /\ \E a \in [1..2 -> 1..MaxAvail] :
          batches = [b \in 1..2 |->
              [item |-> b, received_qty |-> MaxAvail, available_qty |-> a[b],
               expiry_date |-> NoExpiry, status |-> STATUS_AVAILABLE]]
    /\ orders = [o \in 1..2 |-> [status |-> STATUS_NEW]]
    /\ \E q \in [1..4 -> 1..2] :
          orderItems = [i \in 1..4 |->
              [order |-> LiveOrderOf[i], item |-> LiveItemOf[i],
               qty_requested |-> q[i], qty_allocated |-> 0]]
    /\ allocations = <<>>
    /\ txlog = <<>>
    /\ notifications = <<>>
    /\ NoOthers
    /\ rowLock = [r \in {BatchRow(b) : b \in 1..2} \cup {OrderItemRow(i) : i \in 1..4}
                    |-> NoOwner]
    /\ proc = [p \in Procs |-> IdleProc]

\* the steps of caller p once its call has started
CallerStep(p) ==
    \/ AllocBeginLine(p)
    \/ AllocWalk(p)
    \/ AllocEndLine(p)
    \/ AllocFinish(p)
    \/ DeadlockAbort(p)

NextLive ==
    \/ \E p \in Procs, o \in DOMAIN orders : AllocLoad(p, o)
    \/ \E p \in Procs : AllocBeginLine(p)
    \/ \E p \in Procs : AllocWalk(p)
    \/ \E p \in Procs : AllocEndLine(p)
    \/ \E p \in Procs : AllocFinish(p)
    \/ \E p \in Procs : DeadlockAbort(p)

SpecLive == InitLive /\ [][NextLive]_vars /\ \A p \in Procs : WF_vars(CallerStep(p))

-----------------------------------------------------------------------------
(* A deallocation of order 1 concurrent with an allocation of order 2 on the
   same batches *)

\* what order 1 holds of each batch before the requests
HeldByOrder1 == {h \in [1..2 -> 0..MaxAvail] : \E b \in 1..2 : h[b] > 0}

RECURSIVE SumTo(_, _)
SumTo(h, n) == IF n = 0 THEN 0 ELSE h[n] + SumTo(h, n - 1)

\* two batches of item 1; order 1 is ALLOCATED and holds h[b] of batch b,
\* order 2 is NEW with one line for item 1
InitRelease ==
    /\ backend = "postgresql"
    /\ \E h \in HeldByOrder1, q \in 1..MaxReq :
          /\ batches = [b \in 1..2 |->
                [item |-> 1, received_qty |-> MaxAvail, available_qty |-> MaxAvail - h[b],
                 expiry_date |-> NoExpiry, status |-> STATUS_AVAILABLE]]
          /\ orderItems = [i \in 1..2 |->
                IF i = 1
                THEN [order |-> 1, item |-> 1, qty_requested |-> SumTo(h, 2),
                      qty_allocated |-> SumTo(h, 2)]
                ELSE [order |-> 2, item |-> 1, qty_requested |-> q, qty_allocated |-> 0]]
          /\ allocations = SelectSeq([b \in 1..2 |-> [order_item |-> 1, batch |-> b,
                                                      qty_allocated |-> h[b]]],
                                     LAMBDA a : a.qty_allocated > 0)
    /\ orders = [o \in 1..2 |-> [status |-> IF o = 1 THEN STATUS_ALLOCATED ELSE STATUS_NEW]]
    /\ txlog = <<>>
    /\ notifications = <<>>
    /\ NoOthers
    /\ rowLock = [r \in AllRows |-> NoOwner]
    /\ proc = [p \in Procs |-> IdleProc]

\* caller 1 allocates order 2 step by step; caller 2 posts the deallocation of
\* order 1 at any moment. The deallocation takes select_for_update locks only
\* on the lines and allocations of order 1 (views.py 473-474) and reads the
\* batch without a lock (line 476), so it never waits for caller 1
NextRelease ==
    \/ AllocLoad(1, 2)
    \/ AllocBeginLine(1)
    \/ AllocWalk(1)
    \/ AllocEndLine(1)
    \/ AllocFinish(1)
    \/ DeallocateOrderView(2, 1)

SpecRelease == InitRelease /\ [][NextRelease]_vars

\* the reservation of order 2 is committed and the deallocation of order 1 answered
BothAnswered ==
    /\ proc[1].pc = "done"
    /\ proc[1].outcome \in {"allocated", "partial"}
    /\ proc[2].order = 1
    /\ proc[2].outcome # "none"

-----------------------------------------------------------------------------
(* Allocation, RESERVE entry and decrement as one unit *)

\* the rows a step adds at the end of a table
Added(old, new) == SubSeq(new, Len(old) + 1, Len(new))

\* batch and quantity of each row, in table order
BatchAndQty(rows, qtyOf(_)) == [k \in 1..Len(rows) |-> <<rows[k].batch, qtyOf(rows[k])>>]

AllocQty(a) == a.qty_allocated
LogQty(t) == t.qty

\* C26: every committing step adds the Allocation rows, the RESERVE entries
\* and the batch decrements together: the added allocations and the added
\* RESERVE entries agree one to one on batch and quantity, and each batch's
\* available_qty drops by exactly what the added allocations take from it; a
\* call that is aborted part-way commits none of the three.
C26_AllocationLogDecrementTogether ==
    [][LET newAllocs == Added(allocations, allocations')
           newLog == SelectSeq(Added(txlog, txlog'), LAMBDA t : t.type = TYPE_RESERVE)
       IN  /\ Len(allocations') >= Len(allocations)
           /\ BatchAndQty(newAllocs, AllocQty) = BatchAndQty(newLog, LogQty)
           /\ \A b \in DOMAIN batches :
                 batches[b].available_qty - batches'[b].available_qty
                    = SumAllocated(SelectSeq(newAllocs, LAMBDA a : a.batch = b))
           /\ \A p \in Procs :
                 (proc'[p].pc = "done" /\ proc[p].pc # "done"
                     /\ proc'[p].outcome \notin {"allocated", "partial"})
                 => /\ allocations' = allocations
                    /\ txlog' = txlog
                    /\ batches' = batches]_vars

\* one call was aborted after it had taken stock for its first line, the
\* other committed allocations for both of its lines
C26_Witness ==
    /\ \E p \in Procs : proc[p].outcome = "OperationalError"
    /\ Len(allocations) >= 2
    /\ Len(txlog) = Len(allocations)

-----------------------------------------------------------------------------
(* OrderItem.qty_allocated against the Allocation rows *)

\* C27: in every committed state each OrderItem's qty_allocated equals the sum
\* of qty_allocated over the Allocation rows that belong to it.
C27_AllocatedMatchesRows ==
    \A i \in DOMAIN orderItems :
        orderItems[i].qty_allocated = SumAllocated(AllocsOfItem(i))

-----------------------------------------------------------------------------
(* allocate_order called a second time right after a first call *)

\* the drawn databases of the FEFO runs, and in some of them order 1 already
\* holds the unit its single line asks for
InitTwice ==
    \/ InitFefo
    \/ /\ backend = DefaultBackend
       /\ batches = [b \in BatchIds |->
             [item |-> 1, received_qty |-> MaxAvail,
              available_qty |-> IF b = 1 THEN MaxAvail - 1 ELSE MaxAvail,
              expiry_date |-> Today + 1, status |-> STATUS_AVAILABLE]]
       /\ \E st \in {STATUS_NEW, STATUS_ALLOCATED} : orders = [o \in {1} |-> [status |-> st]]
       /\ orderItems = [i \in {1} |-> [order |-> 1, item |-> 1, qty_requested |-> 1,
                                       qty_allocated |-> 1]]
       /\ allocations = <<[order_item |-> 1, batch |-> 1, qty_allocated |-> 1]>>
       /\ txlog = <<[type |-> TYPE_RESERVE, qty |-> 1, batch |-> 1, order |-> 1]>>
       /\ notifications = <<>>
       /\ NoOthers
       /\ rowLock = [r \in AllRows |-> NoOwner]
       /\ proc = [p \in Procs |-> IdleProc]

\* the first call is caller 1's; caller 2 starts the second call on the same
\* order once the first has returned or raised
SecondLoad(o) ==
    /\ proc[1].pc = "done"
    /\ proc[1].order = o
    /\ AllocLoad(2, o)

NextTwice ==
    \/ \E o \in DOMAIN orders : AllocLoad(1, o)
    \/ \E o \in DOMAIN orders : SecondLoad(o)
    \/ \E p \in 1..2 : AllocBeginLine(p)
    \/ \E p \in 1..2 : AllocWalk(p)
    \/ \E p \in 1..2 : AllocEndLine(p)
    \/ \E p \in 1..2 : AllocFinish(p)

SpecTwice == InitTwice /\ [][NextTwice]_vars

\* every line loaded by caller p already has qty_allocated >= qty_requested
LoadedFull(p) ==
    /\ proc[p].n_items > 0
    /\ \A i \in DOMAIN proc[p].snapshot :
          proc[p].snapshot[i].qty_allocated >= proc[p].snapshot[i].qty_requested

\* C28: a call on an order whose every line is already fully allocated
\* creates no Allocation and no TransactionLog row and changes no batch; and
\* no step of a second call made right after a first call changes batches,
\* allocations or any line's qty_allocated.
C28_SecondCallChangesNothing ==
    [][/\ \A p \in 1..2 :
            (LoadedFull(p) /\ proc'[p] # proc[p])
            => /\ allocations' = allocations
               /\ txlog' = txlog
               /\ batches' = batches
       /\ (proc'[2] # proc[2])
            => /\ batches' = batches
               /\ allocations' = allocations
               /\ orderItems' = orderItems]_vars

\* the first call allocated the order in full or in part and the second call
\* has ended as well
C28_Witness ==
    /\ proc[1].pc = "done" /\ proc[1].outcome \in {"allocated", "partial"}
    /\ proc[2].pc = "done" /\ proc[2].outcome \in {"allocated", "AllocationError"}
    /\ allocations # <<>>

-----------------------------------------------------------------------------
(* Redo as the mirror of undo; the history records across undo and redo *)

\* the step in which perform_redo handles the record on top of a non-empty RedoStack
RedoStep ==
    /\ proc[1].pc = "idle"
    /\ redoStack # <<>>
    /\ redoStack' # redoStack

C30_HistoryKept ==
    [][Len(undoStack') + Len(redoStack') = Len(undoStack) + Len(redoStack)]_vars

-----------------------------------------------------------------------------
(* UndoStack.push / pop and RedoStack.push / pop on the stack tables *)

MaxStack == 3       \* most rows a stack table holds
MaxId == 4          \* largest primary key the database hands out

\* the primary keys of the rows of a stack table
IdsOf(table) == {table[k].id : k \in 1..Len(table)}

\* a query that takes the row with the smallest primary key
FirstByIdAscending(table) ==
    CHOOSE k \in 1..Len(table) : \A j \in 1..Len(table) : table[k].id <= table[j].id

\* order_by("-id").first(): the position of the row with the largest primary key
FirstByIdDescending(table) ==
    CHOOSE k \in 1..Len(table) : \A j \in 1..Len(table) : table[k].id >= table[j].id

\* the table without the row at position k (top.delete())
WithoutRow(table, k) == SubSeq(table, 1, k - 1) \o SubSeq(table, k + 1, Len(table))

\* the unsaved copy pop() returns: op_name and metadata, no primary key
CopyOf(row) == [op_name |-> row.op_name, metadata |-> row.metadata]

\* cls.objects.create(op_name=..., metadata=...): the new row gets a primary
\* key larger than every key in the table
StackPush(table, op_name, metadata, id) ==
    Append(table, [id |-> id, op_name |-> op_name, metadata |-> metadata])

\* the caller has the value a stack method returned
StackReturns(p, method, value) ==
    proc' = [proc EXCEPT ![p] = [IdleProc EXCEPT !.outcome = method, !.locked = value]]

\* UndoStack.push(op_name, metadata)
UndoStackPush(p, op_name, id) ==
    /\ Len(undoStack) < MaxStack
    /\ \A i \in IdsOf(undoStack) : i < id
    /\ undoStack' = StackPush(undoStack, op_name, 1, id)
    /\ StackReturns(p, "UndoStack.push", <<>>)
    /\ UNCHANGED <<batches, orders, orderItems, allocations, txlog, notifications,
                   shipments, returns, redoStack, rowLock, backend>>

\* UndoStack.pop(): None on an empty table, else the top row is deleted and a
\* copy of it returned, in one transaction
UndoStackPop(p) ==
    /\ IF undoStack = <<>>
       THEN /\ StackReturns(p, "UndoStack.pop", <<>>)
            /\ UNCHANGED undoStack
       ELSE LET top == FirstByIdDescending(undoStack)
            IN  /\ undoStack' = WithoutRow(undoStack, top)
                /\ StackReturns(p, "UndoStack.pop", <<CopyOf(undoStack[top])>>)
    /\ UNCHANGED <<batches, orders, orderItems, allocations, txlog, notifications,
                   shipments, returns, redoStack, rowLock, backend>>

\* RedoStack.push(op_name, metadata)
RedoStackPush(p, op_name, id) ==
    /\ Len(redoStack) < MaxStack
    /\ \A i \in IdsOf(redoStack) : i < id
    /\ redoStack' = StackPush(redoStack, op_name, 1, id)
    /\ StackReturns(p, "RedoStack.push", <<>>)
    /\ UNCHANGED <<batches, orders, orderItems, allocations, txlog, notifications,
                   shipments, returns, undoStack, rowLock, backend>>

\* RedoStack.pop()
RedoStackPop(p) ==
    /\ IF redoStack = <<>>
       THEN /\ StackReturns(p, "RedoStack.pop", <<>>)
            /\ UNCHANGED redoStack
       ELSE LET top == FirstByIdDescending(redoStack)
            IN  /\ redoStack' = WithoutRow(redoStack, top)
                /\ StackReturns(p, "RedoStack.pop", <<CopyOf(redoStack[top])>>)
    /\ UNCHANGED <<batches, orders, orderItems, allocations, txlog, notifications,
                   shipments, returns, undoStack, rowLock, backend>>

\* both stack tables empty, nothing else in the database
InitStack ==
    /\ backend \in Backends
    /\ batches = <<>>
    /\ orders = <<>>
    /\ orderItems = <<>>
    /\ allocations = <<>>
    /\ txlog = <<>>
    /\ notifications = <<>>
    /\ shipments = <<>>
    /\ returns = <<>>
    /\ undoStack = <<>>
    /\ redoStack = <<>>
    /\ rowLock = [r \in {} |-> NoOwner]
    /\ proc = [p \in Procs |-> IdleProc]

NextStack ==
    \/ \E op_name \in {"allocation", "receive"}, id \in 1..MaxId : UndoStackPush(1, op_name, id)
    \/ UndoStackPop(1)
    \/ \E op_name \in {"allocation", "receive"}, id \in 1..MaxId : RedoStackPush(1, op_name, id)
    \/ RedoStackPop(1)

SpecStack == InitStack /\ [][NextStack]_vars

\* what a LIFO stack does on pop: nothing comes back from an empty stack and
\* the stack stays as it is, else the most recently pushed row still on the
\* stack comes back and the rows under it stay, in their order
LifoPop(table, tableAfter, value) ==
    IF table = <<>>
    THEN value = <<>> /\ tableAfter = <<>>
    ELSE /\ value = <<CopyOf(table[Len(table)])>>
         /\ tableAfter = SubSeq(table, 1, Len(table) - 1)

\* C31: UndoStack and RedoStack are LIFO: pop removes and returns the most
\* recently pushed record still on the stack, so records come off in the
\* reverse of the order they were pushed, and pop on an empty stack returns
\* nothing and changes nothing; a push leaves the earlier records in place
\* under the new one.
C31_StacksAreLifo ==
    [][/\ (proc'[1].outcome = "UndoStack.pop" /\ <<undoStack, proc>>' # <<undoStack, proc>>)
            => LifoPop(undoStack, undoStack', proc'[1].locked)
       /\ (proc'[1].outcome = "RedoStack.pop" /\ <<redoStack, proc>>' # <<redoStack, proc>>)
            => LifoPop(redoStack, redoStack', proc'[1].locked)
       /\ Len(undoStack') > Len(undoStack)
            => SubSeq(undoStack', 1, Len(undoStack)) = undoStack
       /\ Len(redoStack') > Len(redoStack)
            => SubSeq(redoStack', 1, Len(redoStack)) = redoStack]_vars

\* three records were pushed on UndoStack, one has been popped and two remain
C31_Witness ==
    /\ proc[1].outcome = "UndoStack.pop"
    /\ proc[1].locked # <<>>
    /\ Len(undoStack) = MaxStack - 1
    /\ Len(redoStack) >= 1

-----------------------------------------------------------------------------
(* Concurrent perform_undo calls *)

UndoRow(id) == <<"undo", id>>

\* sqlite3 has one write lock for the whole database file
DatabaseLock == <<"database">>

\* DELETE ... WHERE id = %s: the table without the row of that primary key
WithoutId(table, id) == SelectSeq(table, LAMBDA r : r.id # id)

\* callers other than p whose open transaction has read the database
OtherReaders(p) == {q \in Procs \ {p} : proc[q].pc \in {"pop_selected", "pop_reserved"}}

\* perform_undo, line 286, first statement of UndoStack.pop():
\* select_for_update().order_by("-id").first().  On postgresql the top row is
\* locked, after waiting for a transaction that holds it (a row that
\* transaction deleted is passed over); sqlite3 ignores select_for_update and
\* the read takes the shared lock of the database.  Without a row pop()
\* returns None and perform_undo reports that nothing is left (lines 288-290)
PerformUndoSelect(p) ==
    /\ proc[p].pc = "idle"
    /\ proc[p].outcome = "none"
    /\ IF undoStack = <<>>
       THEN /\ Responds(p, "No more operations to undo")
            /\ UNCHANGED rowLock
       ELSE LET top == undoStack[FirstByIdDescending(undoStack)]
            IN  /\ backend = "postgresql" => CanLock(p, UndoRow(top.id))
                /\ rowLock' = IF backend = "postgresql"
                              THEN [rowLock EXCEPT ![UndoRow(top.id)] = p]
                              ELSE rowLock
                /\ proc' = [proc EXCEPT ![p].pc = "pop_selected", ![p].batch = top.id,
                                        ![p].locked = <<CopyOf(top)>>]
    /\ UNCHANGED <<tables, backend>>

\* the rest of perform_undo once pop() has returned the copy: line 292 reads
\* undo_op.operation_type and AttributeError leaves the call
UndoPopped(p) ==
    proc' = [proc EXCEPT ![p] = [IdleProc EXCEPT
                !.outcome = "AttributeError: UndoStack.operation_type",
                !.batch = proc[p].batch, !.locked = proc[p].locked]]

\* top.delete() on postgresql, and the commit of pop()'s transaction.  On
\* sqlite3 the DELETE needs the write lock: it is taken when it is free, and
\* when another transaction holds it the statement fails with
\* OperationalError (database is locked) and pop()'s transaction is rolled back
PerformUndoDelete(p) ==
    /\ proc[p].pc = "pop_selected"
    /\ IF backend = "postgresql"
       THEN /\ undoStack' = WithoutId(undoStack, proc[p].batch)
            /\ UndoPopped(p)
            /\ rowLock' = Release(p)
       ELSE IF rowLock[DatabaseLock] = NoOwner
       THEN /\ rowLock' = [rowLock EXCEPT ![DatabaseLock] = p]
            /\ proc' = [proc EXCEPT ![p].pc = "pop_reserved"]
            /\ UNCHANGED undoStack
       ELSE /\ proc' = [proc EXCEPT ![p] = [IdleProc EXCEPT !.outcome = "OperationalError"]]
            /\ UNCHANGED <<undoStack, rowLock>>
    /\ UNCHANGED <<batches, orders, orderItems, allocations, txlog, notifications,
                   shipments, returns, redoStack, backend>>

\* sqlite3: the commit of pop()'s transaction waits until no other
\* transaction holds the shared lock
PerformUndoCommit(p) ==
    /\ proc[p].pc = "pop_reserved"
    /\ OtherReaders(p) = {}
    /\ undoStack' = WithoutId(undoStack, proc[p].batch)
    /\ UndoPopped(p)
    /\ rowLock' = Release(p)
    /\ UNCHANGED <<batches, orders, orderItems, allocations, txlog, notifications,
                   shipments, returns, redoStack, backend>>

\* an UndoStack of up to MaxStack records with primary keys 1, 2, ...
InitUndoConc ==
    /\ backend \in Backends
    /\ batches = <<>>
    /\ orders = <<>>
    /\ orderItems = <<>>
    /\ allocations = <<>>
    /\ txlog = <<>>
    /\ notifications = <<>>
    /\ shipments = <<>>
    /\ returns = <<>>
    /\ \E n \in 0..MaxStack : \E names \in [1..n -> UNDO_HANDLERS] :
          undoStack = [k \in 1..n |-> [id |-> k, op_name |-> names[k], metadata |-> 1]]
    /\ redoStack = <<>>
    /\ rowLock = [r \in {UndoRow(id) : id \in 1..MaxStack} \cup {DatabaseLock} |-> NoOwner]
    /\ proc = [p \in Procs |-> IdleProc]

NextUndoConc ==
    \/ \E p \in Procs : PerformUndoSelect(p)
    \/ \E p \in Procs : PerformUndoDelete(p)
    \/ \E p \in Procs : PerformUndoCommit(p)

SpecUndoConc == InitUndoConc /\ [][NextUndoConc]_vars

\* pop() returned a record to caller p
GotRecord(p) == proc[p].pc = "idle" /\ proc[p].locked # <<>>

\* C32: when perform_undo calls run concurrently no record of the UndoStack is
\* popped by two of them, and a caller is told that nothing is left to undo
\* only when the stack is empty.
C32_ConcurrentUndoPopsOnce ==
    /\ \A p, q \in Procs :
          (p # q /\ GotRecord(p) /\ GotRecord(q)) => proc[p].batch # proc[q].batch
    /\ \A p \in Procs :
          proc[p].outcome = "No more operations to undo" => undoStack = <<>>

\* two concurrent calls each popped a record and a third record is left
C32_Witness ==
    /\ \E p, q \in Procs : p # q /\ GotRecord(p) /\ GotRecord(q)
    /\ Len(undoStack) >= 1

-----------------------------------------------------------------------------
(* Deleting a batch that was allocated against *)

\* the ledger shows that stock of batch b was reserved at some time
EverAllocated(b) == \E k \in DOMAIN txlog : txlog[k].type = TYPE_RESERVE /\ txlog[k].batch = b

\* C33: a batch that has, or at any earlier time had, an Allocation row is
\* never deleted: the delete is rejected and the batch remains.
C33_AllocatedBatchNeverDeleted ==
    [][\A b \in DOMAIN batches :
          (AllocsOfBatch(b) # <<>> \/ EverAllocated(b)) => b \in DOMAIN batches']_vars

-----------------------------------------------------------------------------
(* Shipping *)

\* the step in which a shipment is created for order o
ShipStep(o) ==
    /\ Len(shipments') = Len(shipments) + 1
    /\ shipments'[Len(shipments')].order = o

\* C34: shipping an order leaves every batch's available_qty unchanged,
\* appends one SHIP ledger entry per allocation of the order, for the
\* allocation's batch and quantity, deletes the order's Allocation rows and
\* sets the order's status to SHIPPED.
C34_ShipEffect ==
    [][\A o \in DOMAIN orders :
          ShipStep(o) =>
             LET rows == AllocsOfOrder(o)
                 newLog == SubSeq(txlog', Len(txlog) + 1, Len(txlog'))
             IN  /\ \A b \in DOMAIN batches :
                       /\ b \in DOMAIN batches'
                       /\ batches'[b].available_qty = batches[b].available_qty
                 /\ Len(newLog) = Len(rows)
                 /\ \A k \in 1..Len(rows) :
                       /\ newLog[k].type = TYPE_SHIP
                       /\ newLog[k].batch = rows[k].batch
                       /\ newLog[k].qty = 0 - rows[k].qty_allocated
                       /\ newLog[k].order = o
                 /\ SelectSeq(allocations', LAMBDA a : orderItems[a.order_item].order = o) = <<>>
                 /\ Len(allocations') = Len(allocations) - Len(rows)
                 /\ orders'[o].status = STATUS_SHIPPED]_vars

\* an allocated order has been shipped: its SHIP entry is in the ledger, its
\* allocation is gone and the batch it came from is still short of the unit
C34_Witness ==
    /\ shipments # <<>>
    /\ \E k \in DOMAIN txlog :
          /\ txlog[k].type = TYPE_SHIP
          /\ orders[txlog[k].order].status = STATUS_SHIPPED
          /\ AllocsOfOrder(txlog[k].order) = <<>>
          /\ batches[txlog[k].batch].available_qty < batches[txlog[k].batch].received_qty

\* C35: an order becomes SHIPPED, and a shipment is created for it, only when
\* its status immediately before was ALLOCATED or PICKED; a ship request in
\* any other status creates no shipment and leaves the status as it was.
C35_ShipOnlyWhenReady ==
    [][\A o \in DOMAIN orders :
          (ShipStep(o) \/ (o \in DOMAIN orders' /\ orders'[o].status = STATUS_SHIPPED
                                               /\ orders[o].status # STATUS_SHIPPED))
          => orders[o].status \in {STATUS_ALLOCATED, STATUS_PICKED}]_vars

-----------------------------------------------------------------------------
(* allocate_order on an order that is past allocation *)

\* the step in which caller 1's allocate_order call on order o ends
AllocEnds(o) ==
    /\ proc[1].pc \notin {"idle", "done"}
    /\ proc'[1].pc = "done"
    /\ proc[1].order = o

\* C36: allocate_order called on an order whose status is PICKED, SHIPPED or
\* DELIVERED leaves the order's status unchanged.
C36_AllocateNeverMovesBack ==
    [][\A o \in DOMAIN orders :
          (AllocEnds(o) /\ orders[o].status \in {STATUS_PICKED, STATUS_SHIPPED, STATUS_DELIVERED})
          => orders'[o].status = orders[o].status]_vars

-----------------------------------------------------------------------------
(* Cancelling an order *)

\* C37: whenever an order's status is CANCELLED no Allocation row belongs to
\* any of its lines and every line's qty_allocated is 0.
C37_CancelledHoldsNothing ==
    \A o \in DOMAIN orders :
        orders[o].status = STATUS_CANCELLED =>
            /\ AllocsOfOrder(o) = <<>>
            /\ \A i \in DOMAIN orderItems :
                  orderItems[i].order = o => orderItems[i].qty_allocated = 0

\* the step in which the cancel request for order o is answered
CancelStep(o) ==
    /\ proc[1].pc = "idle"
    /\ proc'[1].order = o
    /\ proc'[1].outcome \in {"cannot be cancelled", "Failed to cancel order",
                             "successfully cancelled"}
    /\ proc'[1] # proc[1]

\* C38: a cancel request for an order in status ALLOCATED ends with the order
\* CANCELLED, each of its allocations deleted, each referenced batch's
\* available_qty increased by what was allocated from it and one ledger entry
\* recorded per released allocation.
C38_CancelAllocatedSucceeds ==
    [][\A o \in DOMAIN orders :
          (CancelStep(o) /\ orders[o].status = STATUS_ALLOCATED) =>
             /\ orders'[o].status = STATUS_CANCELLED
             /\ SelectSeq(allocations', LAMBDA a : orderItems[a.order_item].order = o) = <<>>
             /\ \A b \in DOMAIN batches :
                   batches'[b].available_qty
                      = batches[b].available_qty
                          + SumAllocated(SelectSeq(AllocsOfOrder(o), LAMBDA a : a.batch = b))
             /\ Len(txlog') = Len(txlog) + Len(AllocsOfOrder(o))]_vars

-----------------------------------------------------------------------------
(* The scheduled expiry scan *)

NManagers == 1      \* staff users who are sent the scan's notifications
WarningDays == 7    \* warning_threshold = today + timedelta(days=7)

\* lines 210-214: expiry_date__lt=today, status=AVAILABLE, available_qty__gt=0
IsExpired(b) ==
    /\ batches[b].expiry_date # NoExpiry
    /\ batches[b].expiry_date < Today
    /\ batches[b].status = STATUS_AVAILABLE
    /\ batches[b].available_qty > 0

\* lines 217-222: expiry_date in today .. today + 7 days, AVAILABLE, in stock
IsNearExpiry(b) ==
    /\ batches[b].expiry_date # NoExpiry
    /\ batches[b].expiry_date >= Today
    /\ batches[b].expiry_date <= Today + WarningDays
    /\ batches[b].status = STATUS_AVAILABLE
    /\ batches[b].available_qty > 0

\* one Notification of the level for every manager
ToManagers(level) == [m \in 1..NManagers |-> [level |-> level, order |-> MissingOrder]]

\* scheduled_expiry_scan(): mark the expired batches, then notify the managers
\* of the expired and of the near-expiry batches
scheduled_expiry_scan(p) ==
    /\ proc[p].pc = "idle"
    /\ LET expired == {b \in DOMAIN batches : IsExpired(b)}
           near_expiry == {b \in DOMAIN batches : IsNearExpiry(b)}
       IN  /\ batches' = [b \in DOMAIN batches |->
                            IF b \in expired
                            THEN [batches[b] EXCEPT !.status = STATUS_EXPIRED]
                            ELSE batches[b]]
           /\ notifications' =
                 notifications
                    \o (IF expired # {} THEN ToManagers(LEVEL_ERROR) ELSE <<>>)
                    \o (IF near_expiry # {} THEN ToManagers(LEVEL_WARNING) ELSE <<>>)
           /\ proc' = [proc EXCEPT ![p] = [IdleProc EXCEPT !.outcome = "expiry scan complete",
                                                           !.qty = Cardinality(expired)]]
    /\ UNCHANGED <<orders, orderItems, allocations, txlog, others, rowLock, backend>>

\* the rows a batch can have when the scan runs
ScanBatchRows ==
    [item : {1}, received_qty : {MaxAvail}, available_qty : {0, MaxAvail},
     expiry_date : {NoExpiry, Today - 1, Today, Today + 1},
     status : {STATUS_AVAILABLE, STATUS_HOLD, STATUS_EXPIRED}]

InitScan ==
    /\ backend = DefaultBackend
    /\ batches \in [BatchIds -> ScanBatchRows]
    /\ orders = <<>>
    /\ orderItems = <<>>
    /\ allocations = <<>>
    /\ txlog = <<>>
    /\ notifications = <<>>
    /\ NoOthers
    /\ rowLock = [r \in {BatchRow(b) : b \in BatchIds} |-> NoOwner]
    /\ proc = [p \in Procs |-> IdleProc]

\* the scan, and between scans a manager putting a batch on hold or back
NextScan ==
    \/ Len(notifications) < 2 * NManagers /\ scheduled_expiry_scan(1)
    \/ \E b \in BatchIds, st \in {STATUS_AVAILABLE, STATUS_HOLD} : BatchUpdateView(b, st)

SpecScan == InitScan /\ [][NextScan]_vars

\* the step in which a scan runs
ScanStep == Len(notifications') > Len(notifications) \/ proc'[1].outcome # proc[1].outcome

\* C39: after a scan every batch that was AVAILABLE with an expiry_date
\* earlier than today is EXPIRED, no other batch's status has changed and no
\* batch's available_qty has changed.
C39_ScanMarksExpired ==
    [][ScanStep =>
          \A b \in DOMAIN batches :
             /\ batches'[b].available_qty = batches[b].available_qty
             /\ batches'[b].status =
                   IF /\ batches[b].status = STATUS_AVAILABLE
                      /\ batches[b].expiry_date # NoExpiry
                      /\ batches[b].expiry_date < Today
                   THEN STATUS_EXPIRED
                   ELSE batches[b].status]_vars

-----------------------------------------------------------------------------
(* ManualQueue: the circular buffer behind the task queue *)

MaxQueue == 3       \* most elements in the queue
MaxValue == 2       \* elements are 1..MaxValue
NoValue == 0        \* None in a free slot of _data
DefaultCapacity == 16   \* capacity when none, or one <= 0, is given
MinGrown == 16      \* new_cap = max(2 * len(old), 16)

Max(a, b) == IF a >= b THEN a ELSE b

\* ManualQueue(capacity): _data is a list of capacity free slots, indices from 0
ManualQueue(capacity) ==
    LET cap == IF capacity <= 0 THEN DefaultCapacity ELSE capacity
    IN  [data |-> [i \in 0..(cap - 1) |-> NoValue], head |-> 0, tail |-> 0, size |-> 0]

\* len(self._data)
Capacity(q) == Cardinality(DOMAIN q.data)

\* a growth that copies the old list from index 0
GrowFromZero(q) ==
    LET old == q.data
        new_cap == Max(2 * Capacity(q), MinGrown)
    IN  [data |-> [i \in 0..(new_cap - 1) |-> IF i < q.size THEN old[i] ELSE NoValue],
         head |-> 0, tail |-> q.size, size |-> q.size]

\* _grow(): a list of max(2 * len(old), 16) slots, the elements copied in
\* FIFO order from _head, wrapping around the old list
Grow(q) ==
    LET old == q.data
        new_cap == Max(2 * Capacity(q), MinGrown)
    IN  [data |-> [i \in 0..(new_cap - 1) |->
                      IF i < q.size THEN old[(q.head + i) % Capacity(q)] ELSE NoValue],
         head |-> 0, tail |-> q.size, size |-> q.size]

\* enqueue(value)
QueueEnqueue(q, value) ==
    LET g == IF q.size = Capacity(q) THEN Grow(q) ELSE q
    IN  [data |-> [g.data EXCEPT ![g.tail] = value],
         head |-> g.head,
         tail |-> (g.tail + 1) % Capacity(g),
         size |-> g.size + 1]

\* dequeue() on a queue that is not empty: the value and the queue after it
QueueDequeue(q) ==
    [value |-> q.data[q.head],
     queue |-> [data |-> [q.data EXCEPT ![q.head] = NoValue],
                head |-> (q.head + 1) % Capacity(q),
                tail |-> q.tail,
                size |-> q.size - 1]]

\* the caller's queue object
TheQueue == proc[1].task_q

\* q.enqueue(value) by the caller; batch keeps the argument and cur where
\* _head was before the call
CallEnqueue(value) ==
    /\ TheQueue.size < MaxQueue
    /\ proc' = [proc EXCEPT
          ![1].task_q = QueueEnqueue(TheQueue, value),
          ![1].cur = TheQueue.head,
          ![1].batch = value,
          ![1].qty = NoValue,
          ![1].outcome = IF TheQueue.size = Capacity(TheQueue)
                         THEN "enqueue after _grow" ELSE "enqueue"]
    /\ UNCHANGED <<tables, rowLock, backend>>

\* q.dequeue() by the caller: IndexError on an empty queue, else the value
CallDequeue ==
    /\ proc' = [proc EXCEPT ![1] =
          IF TheQueue.size = 0
          THEN [@ EXCEPT !.outcome = "IndexError: dequeue", !.qty = NoValue,
                         !.cur = TheQueue.head]
          ELSE [@ EXCEPT !.outcome = "dequeue", !.qty = QueueDequeue(TheQueue).value,
                         !.cur = TheQueue.head,
                         !.task_q = QueueDequeue(TheQueue).queue]]
    /\ UNCHANGED <<tables, rowLock, backend>>

\* q.peek() by the caller
CallPeek ==
    /\ proc' = [proc EXCEPT ![1] =
          IF TheQueue.size = 0
          THEN [@ EXCEPT !.outcome = "IndexError: peek", !.qty = NoValue,
                         !.cur = TheQueue.head]
          ELSE [@ EXCEPT !.outcome = "peek", !.qty = TheQueue.data[TheQueue.head],
                         !.cur = TheQueue.head]]
    /\ UNCHANGED <<tables, rowLock, backend>>

\* a new queue of a small capacity, of the default capacity (0), or of the
\* capacity allocate_order asks for, max(16, len(order_items))
InitQueue ==
    /\ backend = DefaultBackend
    /\ batches = <<>>
    /\ orders = <<>>
    /\ orderItems = <<>>
    /\ allocations = <<>>
    /\ txlog = <<>>
    /\ notifications = <<>>
    /\ NoOthers
    /\ rowLock = [r \in {} |-> NoOwner]
    /\ \E capacity \in {0, 1, 2, Max(DefaultCapacity, 1)} :
          proc = [p \in Procs |->
                    IF p = 1 THEN [IdleProc EXCEPT !.task_q = ManualQueue(capacity)]
                    ELSE IdleProc]

NextQueue ==
    \/ \E value \in 1..MaxValue : CallEnqueue(value)
    \/ CallDequeue
    \/ CallPeek

SpecQueue == InitQueue /\ [][NextQueue]_vars

\* the elements in the queue, oldest first
Contents(q) == [i \in 1..q.size |-> q.data[(q.head + i - 1) % Capacity(q)]]

\* C40: ManualQueue behaves as an unbounded FIFO sequence: an enqueue puts
\* the value behind all elements in the queue, whether or not the buffer has
\* to grow and wherever its head is; a dequeue returns the oldest element and
\* leaves the others in order; size() counts enqueues minus dequeues; dequeue
\* or peek on an empty queue raises IndexError and leaves the queue unchanged;
\* peek returns the oldest element without removing it.
C40_QueueIsFifo ==
    [][LET q == TheQueue
           r == proc'[1].task_q
           answer == proc'[1].outcome
       IN  /\ answer \in {"enqueue", "enqueue after _grow"} =>
                 /\ Contents(r) = Append(Contents(q), proc'[1].batch)
                 /\ r.size = q.size + 1
           /\ answer = "dequeue" =>
                 /\ Contents(q) # <<>>
                 /\ proc'[1].qty = Head(Contents(q))
                 /\ Contents(r) = Tail(Contents(q))
                 /\ r.size = q.size - 1
           /\ answer = "peek" =>
                 /\ Contents(q) # <<>>
                 /\ proc'[1].qty = Head(Contents(q))
                 /\ r = q
           /\ answer \in {"IndexError: dequeue", "IndexError: peek"} =>
                 /\ Contents(q) = <<>>
                 /\ r = q]_vars

\* the buffer grew while its head was not at index 0, and the elements that
\* had wrapped around are in order before the new one
C40_Witness ==
    /\ proc[1].outcome = "enqueue after _grow"
    /\ proc[1].cur # 0
    /\ TheQueue.size = MaxQueue
    /\ Capacity(TheQueue) = MinGrown

====
